---- MODULE Spec2Model ----
(***************************************************************************)
(* Model of the peptoid secondary-structure segment enumeration            *)
(* (ContinuousSSRMSD::init and the ALPHADPLUSCISRMSD constructor) and of   *)
(* the COMBINE function (Combine::Combine, Combine::calculateFunction).    *)
(***************************************************************************)
EXTENDS Integers, Sequences, FiniteSets, TLC

(* ---------------------------------------------------------------- bounds *)
\* largest number of whole residues of a chain given on input
MaxRes == 10
\* chains with a partial residue have 5*r + PartialAtoms atoms, r \in 0..MaxPartialRes
MaxPartialRes == 3
\* largest number of chains (ATOMS1, ATOMS2, ...) given on input
MaxChains == 2
\* largest template, in residues, of the generic ContinuousSSRMSD subclass
MaxGenericRes == 2

(* ------------------------------------------------------ program constants *)
\* ContinuousSSRMSD::ATOMS_IN_BB_RES, # of backbone atoms per residue
ATOMS_IN_BB_RES == 5
\* AlphaDPlusCisRMSD::RES_IN_REF, # of residues we're comparing against
RES_IN_REF == 3

(* --------------------------------------------- fixed-width unsigned values *)
\* An unsigned value of 16*w bits is a sequence of w 16-bit limbs, least
\* significant first (the model's integers are narrower than 2^32).
LimbBase == 256 * 256

\* the w-limb value of a natural n < 2^31
ToLimbs(n, w) == [k \in 1..w |-> IF k = 1 THEN n % LimbBase
                                 ELSE IF k = 2 THEN n \div LimbBase ELSE 0]

\* whether a limb value is below 2^31, and then its value as a natural
LimbsSmall(l) == /\ l[2] < 32768
                 /\ \A k \in 3..Len(l) : l[k] = 0
LimbsNat(l) == l[2] * LimbBase + l[1]

RECURSIVE LimbSubFrom(_, _, _, _)
LimbSubFrom(a, b, k, borrow) ==
    IF k > Len(a) THEN <<>>
    ELSE LET d == a[k] - b[k] - borrow
         IN  <<IF d < 0 THEN d + LimbBase ELSE d>>
             \o LimbSubFrom(a, b, k + 1, IF d < 0 THEN 1 ELSE 0)

\* a - b modulo 2^(16*Len(a)): C++ unsigned subtraction
LimbSub(a, b) == LimbSubFrom(a, b, 1, 0)

RECURSIVE LimbAddFrom(_, _, _, _)
LimbAddFrom(a, b, k, carry) ==
    IF k > Len(a) THEN <<>>
    ELSE LET d == a[k] + b[k] + carry
         IN  <<d % LimbBase>> \o LimbAddFrom(a, b, k + 1, d \div LimbBase)

\* a + b modulo 2^(16*Len(a)): C++ unsigned addition
LimbAdd(a, b) == LimbAddFrom(a, b, 1, 0)

\* unsigned (32 bit) and std::size_t (64 bit)
UnsignedLimbs == 2
SizeTLimbs == 4

(* ------------------------------------------------------------- doubles *)
\* A C++ double (IEEE 754 binary64, round to nearest even) is a record
\*   [k, s, e, m]: kind "zero", "num", "inf" or "nan", sign bit s, and for
\* "num" the value (-1)^s * M * 2^e with M the DoubleBits-bit integer whose
\* bits are m, least significant first, top bit 1.  Exponents stay far
\* inside the binary64 range for the values below, so neither overflow nor
\* subnormals arise.
DoubleBits == 53

DZero(s) == [k |-> "zero", s |-> s, e |-> 0, m |-> <<>>]
DInf(s)  == [k |-> "inf",  s |-> s, e |-> 0, m |-> <<>>]
DNaN     == [k |-> "nan",  s |-> 0, e |-> 0, m |-> <<>>]

Abs(n) == IF n < 0 THEN 0 - n ELSE n
SignBit(n) == IF n < 0 THEN 1 ELSE 0
Xor(a, b) == (a + b) % 2

\* naturals of any size: bit sequences, least significant bit first.  The
\* arithmetic on them works in chunks of ChunkBits bits.
ChunkBits == 15
ChunkBase == 32768

\* the w low bits of a natural v below 2^31
BitsOfFixed(v, w) == [k \in 1..w |-> (v \div 2^(k - 1)) % 2]

BZeros(n) == [k \in 1..n |-> 0]

\* the place of the highest bit set among the first k of b, 0 if there is none
RECURSIVE TopBit(_, _)
TopBit(b, k) == IF k = 0 THEN 0 ELSE IF b[k] = 1 THEN k ELSE TopBit(b, k - 1)

\* b without its high-order zeros
BTrim(b) == SubSeq(b, 1, TopBit(b, Len(b)))

BitsOf(n) == BTrim(BitsOfFixed(n, 31))

\* b * 2^n
BShl(b, n) == BZeros(n) \o b

BBit(b, k) == IF k <= Len(b) THEN b[k] ELSE 0

\* chunk j (from 0) of b, as a natural below ChunkBase
RECURSIVE ChunkFrom(_, _, _)
ChunkFrom(b, j, t) ==
    IF t = ChunkBits THEN 0
    ELSE LET o == ChunkBits * j + t
         IN  BBit(b, o + 1) + 2 * BBit(b, o + 2) + 4 * BBit(b, o + 3)
             + 8 * ChunkFrom(b, j, t + 3)

Chunk(b, j) == ChunkFrom(b, j, 0)

NumChunks(b) == (Len(b) + ChunkBits - 1) \div ChunkBits

RECURSIVE BAddFrom(_, _, _, _)
BAddFrom(a, b, j, carry) ==
    IF j >= NumChunks(a) /\ j >= NumChunks(b) THEN BitsOfFixed(carry, 1)
    ELSE LET t == Chunk(a, j) + Chunk(b, j) + carry
         IN  BitsOfFixed(t % ChunkBase, ChunkBits)
             \o BAddFrom(a, b, j + 1, t \div ChunkBase)

BAdd(a, b) == BTrim(BAddFrom(a, b, 0, 0))

\* b * c for a natural c below ChunkBase
RECURSIVE BMulSmallFrom(_, _, _, _)
BMulSmallFrom(b, c, j, carry) ==
    IF j >= NumChunks(b) THEN BitsOfFixed(carry, ChunkBits)
    ELSE LET t == Chunk(b, j) * c + carry
         IN  BitsOfFixed(t % ChunkBase, ChunkBits)
             \o BMulSmallFrom(b, c, j + 1, t \div ChunkBase)

BMulSmall(b, c) == BTrim(BMulSmallFrom(b, c, 0, 0))

\* a <= b
BLeq(a, b) ==
    LET x    == BTrim(a)
        y    == BTrim(b)
        diff == {k \in 1..Len(x) : x[k] # y[k]}
    IN  IF Len(x) # Len(y) THEN Len(x) < Len(y)
        ELSE IF diff = {} THEN TRUE
        ELSE LET top == CHOOSE k \in diff : \A j \in diff : j <= k
             IN  x[top] < y[top]

\* Rounding of the natural b (a non-empty trimmed bit sequence), followed by
\* non-zero lower-order digits iff sticky, to DoubleBits significant bits,
\* ties to even: [m, sh] with b ~ m * 2^sh
RoundBits(b, sticky) ==
    LET len == Len(b)
        d   == len - DoubleBits
    IN  IF d <= 0
        THEN [m |-> BZeros(0 - d) \o b, sh |-> d]
        ELSE LET kept  == SubSeq(b, d + 1, len)
                 guard == b[d]
                 st    == sticky \/ \E k \in 1..(d - 1) : b[k] = 1
                 up    == guard = 1 /\ (st \/ kept[1] = 1)
                 inc   == BAdd(kept, <<1>>)
             IN  IF ~up THEN [m |-> kept, sh |-> d]
                 ELSE IF Len(inc) > DoubleBits
                 THEN [m |-> SubSeq(inc, 2, Len(inc)), sh |-> d + 1]
                 ELSE [m |-> inc, sh |-> d]

\* the double nearest to (-1)^s * b * 2^e (exactly that value when sticky is
\* FALSE and b has at most DoubleBits bits)
DRound(s, b, e, sticky) ==
    IF BTrim(b) = <<>> THEN DZero(s)
    ELSE LET r == RoundBits(BTrim(b), sticky)
         IN  [k |-> "num", s |-> s, e |-> e + r.sh, m |-> r.m]

\* conversion of an integer (exact below 2^53)
DFromInt(n) == DRound(SignBit(n), BitsOf(Abs(n)), 0, FALSE)

\* long division: the next f chunks of binary digits of rem/n after the
\* point are put below the digits acc already found (least significant
\* first); the remainder left is returned with them.  n is below 2^16.
RECURSIVE FracDigits(_, _, _, _)
FracDigits(rem, n, f, acc) ==
    IF f = 0 THEN [bits |-> acc, rem |-> rem]
    ELSE FracDigits((ChunkBase * rem) % n, n, f - 1,
                    BitsOfFixed((ChunkBase * rem) \div n, ChunkBits) \o acc)

\* chunks of quotient digits generated after the point: enough for
\* DoubleBits significant bits and a guard bit whatever n < 2^16
FracChunks == 5

\* double(a) / double(n) for integers a, n: the correctly rounded quotient
DDivInt(a, n) ==
    IF n = 0
    THEN (IF a = 0 THEN DNaN ELSE DInf(SignBit(a)))
    ELSE LET s  == Xor(SignBit(a), SignBit(n))
             q  == Abs(a) \div Abs(n)
             fd == FracDigits(Abs(a) % Abs(n), Abs(n), FracChunks, BitsOf(q))
         IN  DRound(s, fd.bits, 0 - FracChunks * ChunkBits, fd.rem # 0)

\* double(c) * x for an integer c and a double x: the correctly rounded product
DMulInt(c, x) ==
    CASE x.k = "nan"  -> DNaN
      [] x.k = "inf"  -> IF c = 0 THEN DNaN ELSE DInf(Xor(SignBit(c), x.s))
      [] x.k = "zero" -> DZero(Xor(SignBit(c), x.s))
      [] OTHER        -> DRound(Xor(SignBit(c), x.s), BMulSmall(x.m, Abs(c)),
                                x.e, FALSE)

\* a - b for natural numbers a >= b, by chunks with a borrow
RECURSIVE BSubFrom(_, _, _, _)
BSubFrom(a, b, j, borrow) ==
    IF j >= NumChunks(a) THEN <<>>
    ELSE LET t == Chunk(a, j) - Chunk(b, j) - borrow
         IN  IF t < 0
             THEN BitsOfFixed(t + ChunkBase, ChunkBits) \o BSubFrom(a, b, j + 1, 1)
             ELSE BitsOfFixed(t, ChunkBits) \o BSubFrom(a, b, j + 1, 0)

BSub(a, b) == BTrim(BSubFrom(a, b, 0, 0))

\* x + y in binary64, round to nearest even
DAdd(x, y) ==
    CASE x.k = "nan" \/ y.k = "nan" -> DNaN
      [] x.k = "inf" /\ y.k = "inf" -> IF x.s = y.s THEN x ELSE DNaN
      [] x.k = "inf" -> x
      [] y.k = "inf" -> y
      [] x.k = "zero" /\ y.k = "zero" -> DZero(IF x.s = 1 /\ y.s = 1 THEN 1 ELSE 0)
      [] x.k = "zero" -> y
      [] y.k = "zero" -> x
      [] OTHER ->
           LET emin == IF x.e < y.e THEN x.e ELSE y.e
               a == BShl(x.m, x.e - emin)
               b == BShl(y.m, y.e - emin)
           IN  IF x.s = y.s THEN DRound(x.s, BAdd(a, b), emin, FALSE)
               ELSE IF a = b THEN DZero(0)
               ELSE IF BLeq(b, a) THEN DRound(x.s, BSub(a, b), emin, FALSE)
               ELSE DRound(y.s, BSub(b, a), emin, FALSE)

(* ------------------------------------------------- reference structures *)
\* coordinates in units of 1e-4 Angstrom
AlphaDMinusTransRMSD_getRefStructure ==
  << <<-6950, -21530, -1370>>,
     <<5050, -22730, 1330>>,
     <<-16350, -29230, 5330>>,
     <<-11050, -38430, 15330>>,
     <<-30950, -27330, 4330>>,
     <<3350, 6370, -3370>>,
     <<-3650, 5570, 7030>>,
     <<350, -1830, -13770>>,
     <<-10850, -11530, -11770>>,
     <<5750, -230, -27270>>,
     <<7350, 36270, 6530>>,
     <<-750, 37270, -2470>>,
     <<15950, 25670, 7530>>,
     <<15450, 16370, -3770>>,
     <<27350, 25270, 16330>> >>

AlphaDPlusCisRMSD_reference ==
  << <<-460, 18370, -5470>>,
     <<-4080, 12670, -15720>>,
     <<-8060, 28070, 580>>,
     <<-2970, 36970, 10340>>,
     <<-20840, 31700, -4010>>,
     <<12450, -9420, 1400>>,
     <<18300, -19920, 610>>,
     <<18600, 1870, -3320>>,
     <<13100, 14810, 250>>,
     <<32410, 1710, -7720>>,
     <<-15540, -24330, -4850>>,
     <<-22290, -34350, -4910>>,
     <<-8790, -20870, 6380>>,
     <<-1640, -8550, 7650>>,
     <<-10170, -28740, 18860>> >>

AlphaDPlusTransRMSD_getRefStructure ==
  << <<15010, -15230, 5030>>,
     <<6610, -23030, 1930>>,
     <<20510, -16730, 16730>>,
     <<14910, -25330, 26930>>,
     <<33510, -11930, 21330>>,
     <<-2290, 6070, -6570>>,
     <<-1890, 7070, 5630>>,
     <<8010, -130, -13170>>,
     <<19110, -3630, -4170>>,
     <<32410, 1710, -7720>>,
     <<-26990, 25770, -1370>>,
     <<-17690, 34370, -2370>>,
     <<-25590, 12970, -5270>>,
     <<-14590, 11370, -14370>>,
     <<-36090, 2670, -3570>> >>

AlphaMinusCisRMSD_getRefStructure ==
  << <<5610, 5550, -18310>>,
     <<-3290, 13650, -20110>>,
     <<7210, -5450, -26010>>,
     <<19710, -13650, -26010>>,
     <<-3590, -10950, -34410>>,
     <<3710, -9850, 9190>>,
     <<5910, -20850, 13990>>,
     <<13910, -1250, 5790>>,
     <<14410, 7850, -6010>>,
     <<24910, 650, 15490>>,
     <<-16890, 5950, 27390>>,
     <<-20490, 16650, 32390>>,
     <<-16090, 4650, 13790>>,
     <<-10890, -6850, 6290>>,
     <<-24190, 13850, 6490>> >>

AlphaMinusTransRMSD_getRefStructure ==
  << <<6890, 4900, -22920>>,
     <<12990, -4100, -28820>>,
     <<12890, 17000, -20420>>,
     <<26590, 19400, -26020>>,
     <<3790, 28300, -17520>>,
     <<890, -7300, 3180>>,
     <<11990, -2000, 1880>>,
     <<-9510, -5300, -5520>>,
     <<-7410, 1400, -18320>>,
     <<-22410, -12000, -4220>>,
     <<-10410, 700, 31780>>,
     <<-4610, 9300, 25180>>,
     <<-8610, -12100, 28380>>,
     <<-810, -15000, 16280>>,
     <<-12210, -23200, 37080>> >>

AlphaPlusCisRMSD_getRefStructure ==
  << <<16730, 6110, 7730>>,
     <<19030, 16710, 2630>>,
     <<18130, 5310, 21130>>,
     <<25430, -6790, 26230>>,
     <<11830, 15410, 29030>>,
     <<-11070, -6490, 4030>>,
     <<-20570, -11090, 10331>>,
     <<1030, -13490, 2830>>,
     <<13230, -5990, -970>>,
     <<-770, -27890, 730>>,
     <<-19470, -2590, -24170>>,
     <<-15470, -3890, -35770>>,
     <<-13770, 7610, -17370>>,
     <<-12770, 7110, -2470>>,
     <<-11470, 20010, -23970>> >>

AlphaPlusTransRMSD_getRefStructure ==
  << <<-6570, -19990, 11850>>,
     <<-6470, -24390, 23450>>,
     <<-18170, -18790, 5250>>,
     <<-31670, -19590, 11950>>,
     <<-17270, -20190, -9450>>,
     <<7030, 6210, 5450>>,
     <<-370, 5510, 15250>>,
     <<11430, -6090, -850>>,
     <<6830, -18190, 5950>>,
     <<22930, -6290, -10550>>,
     <<-1670, 24210, -17450>>,
     <<-10670, 20410, -10350>>,
     <<11130, 24410, -12650>>,
     <<12830, 19610, 1450>>,
     <<20630, 33110, -19250>> >>

C7BetaMinusCisRMSD_getRefStructure ==
  << <<-16180, 11920, -9850>>,
     <<-23880, 2420, -8950>>,
     <<-18580, 23420, -3450>>,
     <<-9380, 35920, -4150>>,
     <<-31180, 25720, 2550>>,
     <<11220, -8580, -7550>>,
     <<18920, -18380, -10350>>,
     <<1620, -3980, -16250>>,
     <<-2580, 9820, -15150>>,
     <<-580, -10680, -28550>>,
     <<5320, -14980, 25250>>,
     <<8020, -21380, 35750>>,
     <<15120, -12280, 16550>>,
     <<13820, -1880, 5450>>,
     <<28320, -17080, 18650>> >>

C7BetaMinusTransRMSD_getRefStructure ==
  << <<13910, -18610, 13320>>,
     <<9410, -29910, 17320>>,
     <<27310, -16210, 11320>>,
     <<36610, -26810, 15220>>,
     <<33410, -3910, 5120>>,
     <<-890, 10490, -1780>>,
     <<6310, 17690, 5520>>,
     <<-1890, -3210, 920>>,
     <<3410, -8110, 13220>>,
     <<-8090, -11910, -8680>>,
     <<-31690, 16890, -20980>>,
     <<-27090, 11090, -30380>>,
     <<-23390, 19790, -10180>>,
     <<-9190, 17890, -12380>>,
     <<-28090, 24890, 2420>> >>

\* a template that has lost its last point
TemplateOfFourteenPoints ==
    SubSeq(C7BetaMinusTransRMSD_getRefStructure, 1, 14)

C7BetaPlusCisRMSD_getRefStructure ==
  << <<19060, -6610, 8810>>,
     <<19460, -18310, 4910>>,
     <<16360, -4310, 22310>>,
     <<18060, 8490, 29410>>,
     <<13360, -16210, 30910>>,
     <<-1140, 7790, -14690>>,
     <<-6040, 9190, -25590>>,
     <<11960, 2990, -13590>>,
     <<19660, 4990, -590>>,
     <<19060, 1890, -25890>>,
     <<-26440, -8110, -1290>>,
     <<-37940, -10710, 2810>>,
     <<-22540, 4790, -5490>>,
     <<-9540, 10290, -3490>>,
     <<-33340, 13890, -8590>> >>

C7BetaPlusTransRMSD_getRefStructure ==
  << <<-24240, -3830, 10220>>,
     <<-28340, -14930, 14320>>,
     <<-32940, 4470, 2420>>,
     <<-47040, -330, 1420>>,
     <<-28140, 15970, -5380>>,
     <<8560, 1670, -2680>>,
     <<6460, 13870, -1380>>,
     <<560, -6530, 5320>>,
     <<-9840, -1030, 13320>>,
     <<260, -21130, 4220>>,
     <<39060, 1170, -3280>>,
     <<35160, -5330, 6420>>,
     <<30260, 3970, -12480>>,
     <<18560, -4130, -12080>>,
     <<31660, 16170, -20380>> >>

\* the keywords under which PLUMED_REGISTER_ACTION registers the motif actions
ContinuousActions ==
  { "ALPHADMINUSTRANSRMSD",
    "ALPHADPLUSTRANSRMSD",
    "ALPHAMINUSCISRMSD",
    "ALPHAMINUSTRANSRMSD",
    "ALPHAPLUSCISRMSD",
    "ALPHAPLUSTRANSRMSD",
    "C7BETAMINUSCISRMSD",
    "C7BETAMINUSTRANSRMSD",
    "C7BETAPLUSCISRMSD",
    "C7BETAPLUSTRANSRMSD" }

AlphaDPlusCisAction == "ALPHADPLUSCISRMSD"

RegisteredActions == ContinuousActions \cup {AlphaDPlusCisAction}

\* a subclass of ContinuousSSRMSD other than the registered ones: its
\* getRefStructure returns t residues of ATOMS_IN_BB_RES points each
GenericAction == "GENERIC"

GenericRefStructure(t) == [k \in 1..(ATOMS_IN_BB_RES * t) |-> <<0, 0, 0>>]

\* virtual dispatch of getRefStructure() on the action a
getRefStructure(a, t) ==
    CASE a = GenericAction -> GenericRefStructure(t)
      [] a = "ALPHADMINUSTRANSRMSD" -> AlphaDMinusTransRMSD_getRefStructure
      [] a = "ALPHADPLUSTRANSRMSD" -> AlphaDPlusTransRMSD_getRefStructure
      [] a = "ALPHAMINUSCISRMSD" -> AlphaMinusCisRMSD_getRefStructure
      [] a = "ALPHAMINUSTRANSRMSD" -> AlphaMinusTransRMSD_getRefStructure
      [] a = "ALPHAPLUSCISRMSD" -> AlphaPlusCisRMSD_getRefStructure
      [] a = "ALPHAPLUSTRANSRMSD" -> AlphaPlusTransRMSD_getRefStructure
      [] a = "C7BETAMINUSCISRMSD" -> C7BetaMinusCisRMSD_getRefStructure
      [] a = "C7BETAMINUSTRANSRMSD" -> C7BetaMinusTransRMSD_getRefStructure
      [] a = "C7BETAPLUSCISRMSD" -> C7BetaPlusCisRMSD_getRefStructure
      [] a = "C7BETAPLUSTRANSRMSD" -> C7BetaPlusTransRMSD_getRefStructure

(* ------------------------------------------------------------------ state *)
VARIABLES
    action,       \* keyword of the action being constructed
    genericRes,   \* template residues of the GENERIC subclass (0 otherwise)
    chains,       \* std::vector<unsigned> chains: atoms of each backbone chain
    pc,           \* position of the constructor: start, loop, done, error, assert, hang
    i,            \* index of the chain the loop is at (0-based, as in the code)
    nprevious,    \* atoms of the chains already passed
    colvars,      \* the nlist of every addColvar call of ContinuousSSRMSD::init
    colvarChain,  \* history: for every such call, the chain index i it was made for
    blocks,       \* ALPHADPLUSCISRMSD: per chain, first accum and number of addColvar calls
    errmsg,       \* which error() was raised
    secondary,    \* structure handed to setSecondaryStructure
    nSetSS        \* number of setSecondaryStructure calls

ssvars == <<action, genericRes, chains, pc, i, nprevious, colvars, colvarChain,
            blocks, errmsg, secondary, nSetSS>>

\* atom counts a chain may have on input: whole residues, or a partial residue
PartialAtoms == 1..(ATOMS_IN_BB_RES - 1)
ChainAtoms ==
    {ATOMS_IN_BB_RES * r : r \in 1..MaxRes}
    \cup {ATOMS_IN_BB_RES * r + d : r \in 0..MaxPartialRes, d \in PartialAtoms}

ChainLists == UNION {[1..n -> ChainAtoms] : n \in 1..MaxChains}

InitSS ==
    /\ action \in RegisteredActions \cup {GenericAction}
    /\ genericRes \in (IF action = GenericAction THEN 1..MaxGenericRes ELSE {0})
    /\ chains \in ChainLists
    /\ pc = "start"
    /\ i = 0
    /\ nprevious = 0
    /\ colvars = <<>>
    /\ colvarChain = <<>>
    /\ blocks = <<>>
    /\ errmsg = "none"
    /\ secondary = <<>>
    /\ nSetSS = 0

(* ------------------------------------------------ ContinuousSSRMSD::init *)
\* mutant of NList: the last template atom is left out of the window
NListOneShort(accum, n) == [k \in 1..(n - 1) |-> accum + (k - 1)]

\* nlist[k] = accum + k for k = 0 .. n-1
NList(accum, n) == [k \in 1..n |-> accum + (k - 1)]

\* mutant of NotLongEnough: the length is compared in residues against points/5 - 1
NotLongEnoughLax(n, reflen) == n < reflen - ATOMS_IN_BB_RES

\* mutant of NotMultiple: one atom beyond a whole residue is let through
NotMultipleLax(n) == n % ATOMS_IN_BB_RES > 1

\* a length check that lets chains with a partial residue through
NotLongEnoughWhole(n, reflen) == n < reflen /\ n % ATOMS_IN_BB_RES = 0

\* the conditions of the two error() calls of a chain of n atoms against a
\* template of reflen points
NotLongEnough(n, reflen) == n < reflen

NotMultiple(n) == n % ATOMS_IN_BB_RES # 0

\* mutant of NextPrevious: nprevious is not advanced past the chain
NextPreviousStale(nprev, n) == nprev

\* nprevious+=chains[i]
NextPrevious(nprev, n) == nprev + n

\* a loop bound that subtracts the template's atoms from the residues
InitLoopBoundAtoms(nres, reflen) ==
    LimbSub(ToLimbs(nres, SizeTLimbs), ToLimbs(reflen, SizeTLimbs))

\* a loop bound taken from RES_IN_REF in place of the template at hand
InitLoopBoundFixed(nres, reflen) ==
    LimbSub(ToLimbs(nres, SizeTLimbs), ToLimbs(RES_IN_REF, SizeTLimbs))

\* nres - refstructure.size()/ATOMS_IN_BB_RES, evaluated in std::size_t
InitLoopBound(nres, reflen) ==
    LimbSub(ToLimbs(nres, SizeTLimbs),
            ToLimbs(reflen \div ATOMS_IN_BB_RES, SizeTLimbs))

\* mutant of InitSegments: the loop runs from last down to ires
RECURSIVE InitSegmentsDescending(_, _, _, _)
InitSegmentsDescending(ires, last, nprev, reflen) ==
    IF ires > last THEN <<>>
    ELSE InitSegmentsDescending(ires + 1, last, nprev, reflen)
         \o <<NList(nprev + ATOMS_IN_BB_RES * ires, reflen)>>

\* mutant of InitSegments: the loop runs while ires < last
RECURSIVE InitSegmentsExclusive(_, _, _, _)
InitSegmentsExclusive(ires, last, nprev, reflen) ==
    IF ires >= last THEN <<>>
    ELSE <<NList(nprev + ATOMS_IN_BB_RES * ires, reflen)>>
         \o InitSegmentsExclusive(ires + 1, last, nprev, reflen)

\* for(ires = first; ires <= last; ires++) addColvar(nlist)
RECURSIVE InitSegments(_, _, _, _)
InitSegments(ires, last, nprev, reflen) ==
    IF ires > last THEN <<>>
    ELSE <<NList(nprev + ATOMS_IN_BB_RES * ires, reflen)>>
         \o InitSegments(ires + 1, last, nprev, reflen)

\* lines 74-87: chains and reference structure are fetched, the two
\* plumed_massert on the reference structure are evaluated
InitBegin ==
    /\ pc = "start"
    /\ action # AlphaDPlusCisAction
    /\ LET refstructure == getRefStructure(action, genericRes)
       IN  pc' = IF Len(refstructure) = 0
                    \/ Len(refstructure) % ATOMS_IN_BB_RES # 0
                 THEN "assert" ELSE "loop"
    /\ UNCHANGED <<action, genericRes, chains, i, nprevious, colvars, colvarChain, blocks,
                   errmsg, secondary, nSetSS>>

\* lines 88-102: one iteration of the loop over the chains
InitChain ==
    /\ pc = "loop"
    /\ action # AlphaDPlusCisAction
    /\ i < Len(chains)
    /\ LET reflen == Len(getRefStructure(action, genericRes))
           n      == chains[i + 1]
           nres   == n \div ATOMS_IN_BB_RES
           bound  == InitLoopBound(nres, reflen)
           segs   == InitSegments(0, LimbsNat(bound), nprevious, reflen)
       IN  IF NotLongEnough(n, reflen)
           THEN /\ pc' = "error"
                /\ errmsg' = "not_long_enough"
                /\ UNCHANGED <<i, nprevious, colvars, colvarChain>>
           ELSE IF NotMultiple(n)
           THEN /\ pc' = "error"
                /\ errmsg' = "not_multiple"
                /\ UNCHANGED <<i, nprevious, colvars, colvarChain>>
           ELSE IF ~LimbsSmall(bound)
           THEN \* ires <= bound holds for every unsigned ires
                /\ pc' = "hang"
                /\ UNCHANGED <<i, nprevious, colvars, colvarChain, errmsg>>
           ELSE /\ colvars' = colvars \o segs
                /\ colvarChain' = colvarChain \o [k \in 1..Len(segs) |-> i]
                /\ nprevious' = NextPrevious(nprevious, n)
                /\ i' = i + 1
                /\ UNCHANGED <<pc, errmsg>>
    /\ UNCHANGED <<action, genericRes, chains, blocks, secondary, nSetSS>>

\* the structure is stored whether or not the loop has passed every chain
InitFinishEarly ==
    /\ pc = "loop"
    /\ action # AlphaDPlusCisAction
    /\ i <= Len(chains)
    /\ secondary' = getRefStructure(action, genericRes)
    /\ nSetSS' = nSetSS + 1
    /\ pc' = "done"
    /\ UNCHANGED <<action, genericRes, chains, i, nprevious, colvars, colvarChain, blocks,
                   errmsg>>

\* line 105: setSecondaryStructure( refstructure, ... )
InitFinish ==
    /\ pc = "loop"
    /\ action # AlphaDPlusCisAction
    /\ i = Len(chains)
    /\ secondary' = getRefStructure(action, genericRes)
    /\ nSetSS' = nSetSS + 1
    /\ pc' = "done"
    /\ UNCHANGED <<action, genericRes, chains, i, nprevious, colvars, colvarChain, blocks,
                   errmsg>>

(* ------------------------------- AlphaDPlusCisRMSD::AlphaDPlusCisRMSD *)
\* int natoms = RES_IN_REF * ATOMS_IN_BB_RES
AlphaDPlusCisNatoms == RES_IN_REF * ATOMS_IN_BB_RES

\* nres - ATOMS_IN_BB_RES, evaluated in unsigned
AlphaDPlusCisLoopBound(nres) ==
    LimbSub(ToLimbs(nres, UnsignedLimbs), ToLimbs(ATOMS_IN_BB_RES, UnsignedLimbs))

\* lines 105-110: chains are read, natoms is computed
AlphaDPlusCisBegin ==
    /\ pc = "start"
    /\ action = AlphaDPlusCisAction
    /\ pc' = "loop"
    /\ UNCHANGED <<action, genericRes, chains, i, nprevious, colvars, colvarChain, blocks,
                   errmsg, secondary, nSetSS>>

\* lines 111-123: one iteration of the loop over the chains; the inner loop
\* for(ires=0; ires < bound; ires++) calls addColvar bound times, with
\* accum = nprevious + ATOMS_IN_BB_RES * ires
AlphaDPlusCisChain ==
    /\ pc = "loop"
    /\ action = AlphaDPlusCisAction
    /\ i < Len(chains)
    /\ LET n    == chains[i + 1]
           nres == n \div ATOMS_IN_BB_RES
       IN  IF NotLongEnough(n, AlphaDPlusCisNatoms)
           THEN /\ pc' = "error"
                /\ errmsg' = "not_long_enough"
                /\ UNCHANGED <<i, nprevious, blocks>>
           ELSE IF NotMultiple(n)
           THEN /\ pc' = "error"
                /\ errmsg' = "not_multiple"
                /\ UNCHANGED <<i, nprevious, blocks>>
           ELSE /\ blocks' = Append(blocks,
                                    [first |-> nprevious,
                                     len   |-> AlphaDPlusCisNatoms,
                                     count |-> AlphaDPlusCisLoopBound(nres)])
                /\ nprevious' = NextPrevious(nprevious, n)
                /\ i' = i + 1
                /\ UNCHANGED <<pc, errmsg>>
    /\ UNCHANGED <<action, genericRes, chains, colvars, colvarChain, secondary,
                   nSetSS>>

\* lines 125-143: the reference is built and stored
AlphaDPlusCisFinish ==
    /\ pc = "loop"
    /\ action = AlphaDPlusCisAction
    /\ i = Len(chains)
    /\ secondary' = AlphaDPlusCisRMSD_reference
    /\ nSetSS' = nSetSS + 1
    /\ pc' = "done"
    /\ UNCHANGED <<action, genericRes, chains, i, nprevious, colvars, colvarChain, blocks,
                   errmsg>>

NextSS ==
    \/ InitBegin
    \/ InitChain
    \/ InitFinish
    \/ AlphaDPlusCisBegin
    \/ AlphaDPlusCisChain
    \/ AlphaDPlusCisFinish

(* ----------------------------------------------------- Combine::Combine *)
\* largest number of arguments, and of entries of a keyword's vector
MaxArgs == 2
\* largest coefficient given with COEFFICIENTS
MaxCoef == 3

\* values given on the input line; they are integers, which Tools::convert
\* turns into the doubles of the same value.  A PARAMETERS or POWERS that is
\* given holds a value other than the keyword's default in every entry.
CoefValues == (0 - 1)..MaxCoef
ParamValues == {1}
PowerValues == {2}

\* what the input line holds for a vector keyword: absent, or the values
KeywordInputs(V) ==
    {[given |-> FALSE, vals |-> <<>>]}
    \cup {[given |-> TRUE, vals |-> v] :
            v \in UNION {[1..n -> V] : n \in 1..MaxArgs}}

VARIABLES
    cpc,            \* position of the constructor / life of the object
    numberedkeys,   \* ActionWithArguments::numberedkeys
    nargs,          \* getNumberOfArguments()
    nscalar,        \* getNumberOfScalarArguments()
    kwCoefficients, \* COEFFICIENTS as found on the input line
    kwParameters,   \* PARAMETERS as found on the input line
    kwPowers,       \* POWERS as found on the input line
    kwNormalize,    \* whether NORMALIZE is on the input line
    normalize,      \* bool normalize
    coefficients,   \* std::vector<double> coefficients
    parameters,     \* std::vector<double> parameters (integer valued)
    powers,         \* std::vector<double> powers (integer valued)
    cerr            \* which error() was raised

cvars == <<cpc, numberedkeys, nargs, nscalar, kwCoefficients, kwParameters,
           kwPowers, kwNormalize, normalize, coefficients, parameters, powers,
           cerr>>

NotRead == [given |-> FALSE, vals |-> <<>>]

\* the integer value of an integer-valued double below 2^31
DToInt(x) ==
    IF x.k # "num" THEN 0
    ELSE LET b == SubSeq(x.m, 1 - x.e, Len(x.m))
             v == Chunk(b, 0) + ChunkBase * Chunk(b, 1)
                  + ChunkBase * ChunkBase * Chunk(b, 2)
         IN  IF x.s = 1 THEN 0 - v ELSE v

\* lines 105-111: the member initialisers
InitCombine ==
    /\ cpc = "begin"
    /\ numberedkeys \in BOOLEAN
    /\ nargs \in 1..MaxArgs
    /\ nscalar \in nargs..MaxArgs
    /\ kwCoefficients = NotRead
    /\ kwParameters = NotRead
    /\ kwPowers = NotRead
    /\ kwNormalize = FALSE
    /\ normalize = FALSE
    /\ coefficients = [k \in 1..nargs |-> DFromInt(1)]
    /\ parameters = [k \in 1..nargs |-> 0]
    /\ powers = [k \in 1..nargs |-> 1]
    /\ cerr = "none"

\* the number of entries each vector must have
NumberOfInputs == IF numberedkeys THEN nargs ELSE nscalar

\* std::vector::resize(n): kept entries, new ones value-initialised
Resize(t, n, zero) == [k \in 1..n |-> IF k <= Len(t) THEN t[k] ELSE zero]

\* Action::parseVector(key, t): the values of the keyword when it is given,
\* otherwise every entry of t is set to the keyword's default
parseVector(kw, t, def) ==
    IF kw.given THEN kw.vals ELSE [k \in 1..Len(t) |-> def]

\* a size test that lets too short a vector through
SizeMismatchLax(t, n) == Len(t) > n

\* a size test that lets too long a vector through
SizeMismatchShort(t, n) == Len(t) < n

\* the three size tests: vector.size() != number of (scalar) arguments
SizeMismatch(t, n) == Len(t) # n

\* lines 113-114: the test on the first argument's rank
CombineCheckArgument ==
    /\ cpc = "begin"
    /\ \E nonscalarmany \in BOOLEAN :
          IF ~numberedkeys /\ nonscalarmany
          THEN cpc' = "error" /\ cerr' = "one_nonscalar"
          ELSE cpc' = "coefficients" /\ cerr' = cerr
    /\ UNCHANGED <<numberedkeys, nargs, nscalar, kwCoefficients, kwParameters,
                   kwPowers, kwNormalize, normalize, coefficients, parameters,
                   powers>>

\* lines 116-118 and 128-130
ParseCoefficients ==
    /\ cpc = "coefficients"
    /\ \E kw \in KeywordInputs(CoefValues) :
          LET sized == IF numberedkeys THEN coefficients
                       ELSE Resize(coefficients, nscalar, DZero(0))
              read  == parseVector([given |-> kw.given,
                                    vals  |-> [k \in 1..Len(kw.vals) |->
                                                 DFromInt(kw.vals[k])]],
                                   sized, DFromInt(1))
          IN  /\ kwCoefficients' = kw
              /\ coefficients' = read
              /\ IF SizeMismatch(read, NumberOfInputs)
                 THEN cpc' = "error" /\ cerr' = "coefficients"
                 ELSE cpc' = "parameters" /\ cerr' = cerr
    /\ UNCHANGED <<numberedkeys, nargs, nscalar, kwParameters, kwPowers,
                   kwNormalize, normalize, parameters, powers>>

\* lines 120-122 and 132-134
ParseParameters ==
    /\ cpc = "parameters"
    /\ \E kw \in KeywordInputs(ParamValues) :
          LET sized == IF numberedkeys THEN parameters
                       ELSE Resize(parameters, nscalar, 0)
              read  == parseVector(kw, sized, 0)
          IN  /\ kwParameters' = kw
              /\ parameters' = read
              /\ IF SizeMismatch(read, NumberOfInputs)
                 THEN cpc' = "error" /\ cerr' = "parameters"
                 ELSE cpc' = "powers" /\ cerr' = cerr
    /\ UNCHANGED <<numberedkeys, nargs, nscalar, kwCoefficients, kwPowers,
                   kwNormalize, normalize, coefficients, powers>>

\* lines 124-126 and 136-138
ParsePowers ==
    /\ cpc = "powers"
    /\ \E kw \in KeywordInputs(PowerValues) :
          LET sized == IF numberedkeys THEN powers
                       ELSE Resize(powers, nscalar, 0)
              read  == parseVector(kw, sized, 1)
          IN  /\ kwPowers' = kw
              /\ powers' = read
              /\ IF SizeMismatch(read, NumberOfInputs)
                 THEN cpc' = "error" /\ cerr' = "powers"
                 ELSE cpc' = "normalize" /\ cerr' = cerr
    /\ UNCHANGED <<numberedkeys, nargs, nscalar, kwCoefficients, kwParameters,
                   kwNormalize, normalize, coefficients, parameters>>

\* double n=0.0; for(i) n+=coefficients[i];  The coefficients are integer
\* valued here, so every partial sum is an integer and the additions are exact
RECURSIVE CoefficientSumFrom(_, _)
CoefficientSumFrom(cs, k) ==
    IF k > Len(cs) THEN 0 ELSE DToInt(cs[k]) + CoefficientSumFrom(cs, k + 1)

CoefficientSum(cs) == CoefficientSumFrom(cs, 1)

\* a normalisation by the number of coefficients in place of their sum
NormalizeByCount(cs) ==
    [k \in 1..Len(cs) |-> DMulInt(DToInt(cs[k]), DDivInt(1, Len(cs)))]

\* a normalisation that divides every coefficient by itself
NormalizeEachByItself(cs) ==
    [k \in 1..Len(cs) |-> DMulInt(DToInt(cs[k]), DDivInt(1, DToInt(cs[k])))]

\* for(i) coefficients[i]*=(1.0/n)
NormalizeCoefficients(cs) ==
    LET n == CoefficientSum(cs)
    IN  [k \in 1..Len(cs) |-> DMulInt(DToInt(cs[k]), DDivInt(1, n))]

\* lines 140-149: NORMALIZE is read and applied; the value is added
ParseNormalize ==
    /\ cpc = "normalize"
    /\ \E flag \in BOOLEAN :
          /\ kwNormalize' = flag
          /\ normalize' = flag
          /\ coefficients' = IF flag THEN NormalizeCoefficients(coefficients)
                             ELSE coefficients
    /\ cpc' = "constructed"
    /\ UNCHANGED <<numberedkeys, nargs, nscalar, kwCoefficients, kwParameters,
                   kwPowers, parameters, powers, cerr>>

NextCombine ==
    \/ CombineCheckArgument
    \/ ParseCoefficients
    \/ ParseParameters
    \/ ParsePowers
    \/ ParseNormalize

(* -------------------------------------------- Combine::calculateFunction *)
\* largest number of inputs of an object that is evaluated
MaxInputs == 3
\* objects with numbered ARG keywords have at most MaxNumbered inputs: from two
\* inputs on they take the branch of the objects with several scalar inputs
MaxNumbered == 2

\* coefficients given to the objects that are evaluated
CalcCoefValues == {1, 2}
\* values of the inputs; they are integers, held in doubles of the same value
ArgValues == {1, 2}
\* a periodic input has the domain [-PeriodLength/2, PeriodLength/2)
PeriodLength == 4

VARIABLES
    periodic,   \* whether the arguments are periodic
    epc,        \* position of the evaluation of one task
    args,       \* const std::vector<double>& args
    taskIndex,  \* myvals.getTaskIndex()
    value,      \* value 0 of myvals
    derivs      \* the derivatives of value 0 held by myvals, by slot

evars == <<periodic, epc, args, taskIndex, value, derivs>>

IdleCalc ==
    /\ periodic = FALSE
    /\ epc = "none"
    /\ args = <<>>
    /\ taskIndex = 0
    /\ value = DZero(0)
    /\ derivs = <<>>

\* keyword inputs with one entry per input
KeywordInputsOf(V, n) ==
    {NotRead} \cup {[given |-> TRUE, vals |-> v] : v \in [1..n -> V]}

\* the coefficients a constructor that read kw and flag leaves in the object
ConstructedCoefficients(kw, flag, n) ==
    LET read == parseVector([given |-> kw.given,
                             vals  |-> [k \in 1..Len(kw.vals) |->
                                          DFromInt(kw.vals[k])]],
                            [k \in 1..n |-> DFromInt(1)], DFromInt(1))
    IN  IF flag THEN NormalizeCoefficients(read) ELSE read

\* an object as Combine::Combine constructs it, ready for its first task:
\* numbered arguments, scalar arguments, or one vector of nscalar elements
InitCalc ==
    /\ cpc = "constructed"
    /\ nscalar \in 1..MaxInputs
    /\ numberedkeys \in IF nscalar <= MaxNumbered THEN BOOLEAN ELSE {FALSE}
    /\ nargs \in IF numberedkeys THEN {nscalar} ELSE {1, nscalar}
    /\ kwCoefficients \in KeywordInputsOf(CalcCoefValues, nscalar)
    /\ kwParameters \in KeywordInputsOf(ParamValues, nscalar)
    /\ kwPowers \in KeywordInputsOf(PowerValues, nscalar)
    /\ kwNormalize \in BOOLEAN
    /\ normalize = kwNormalize
    /\ coefficients = ConstructedCoefficients(kwCoefficients, kwNormalize, nscalar)
    /\ parameters = parseVector(kwParameters, [k \in 1..nscalar |-> 0], 0)
    /\ powers = parseVector(kwPowers, [k \in 1..nscalar |-> 1], 1)
    /\ cerr = "none"
    /\ periodic \in BOOLEAN
    /\ epc = "ready"
    /\ args = <<>>
    /\ taskIndex = 0
    /\ value = DZero(0)
    /\ derivs = <<>>

\* coefficients given to an object with a single scalar input
SingleCoefValues == {0 - 1, 0, 1, 2}

\* an object constructed for a single scalar input, given as ARG or as ARG1
InitSingle ==
    /\ cpc = "constructed"
    /\ nscalar = 1
    /\ numberedkeys \in BOOLEAN
    /\ nargs = 1
    /\ kwCoefficients \in KeywordInputsOf(SingleCoefValues, nscalar)
    /\ kwParameters \in KeywordInputsOf(ParamValues, nscalar)
    /\ kwPowers \in KeywordInputsOf(PowerValues, nscalar)
    /\ kwNormalize \in BOOLEAN
    /\ normalize = kwNormalize
    /\ coefficients = ConstructedCoefficients(kwCoefficients, kwNormalize, nscalar)
    /\ parameters = parseVector(kwParameters, [k \in 1..nscalar |-> 0], 0)
    /\ powers = parseVector(kwPowers, [k \in 1..nscalar |-> 1], 1)
    /\ cerr = "none"
    /\ periodic \in BOOLEAN
    /\ epc = "ready"
    /\ args = <<>>
    /\ taskIndex = 0
    /\ value = DZero(0)
    /\ derivs = <<>>

\* number of tasks: one per element of the vector in the repeated mode
NumberOfTasks == IF nargs = 1 /\ ~numberedkeys THEN nscalar ELSE 1

\* Value::difference(a, x): x - a, brought into the domain when periodic
difference(per, a, x) ==
    IF per
    THEN ((x - a + PeriodLength \div 2) % PeriodLength) - PeriodLength \div 2
    ELSE x - a

\* std::pow(cv, p) for an integer cv and an integer p >= 0; pow(cv, 0) is 1
RECURSIVE pow(_, _)
pow(cv, p) == IF p = 0 THEN 1 ELSE cv * pow(cv, p - 1)

\* MultiValue::addDerivative(0, slot, der): adds der to the slot's derivative
addDerivative(ders, slot, der) ==
    [ders EXCEPT ![slot + 1] = DAdd(@, der)]

\* a term that leaves the power out
TermNoPower(c, p, cv) == DMulInt(cv, c)

\* coefficients[i]*pow(cv,powers[i])
Term(c, p, cv) == DMulInt(pow(cv, p), c)

\* a derivative that leaves the factor powers[i] out
TermDerivativeNoFactor(c, p, cv) == DMulInt(pow(cv, p - 1), c)

\* coefficients[i]*powers[i]*pow(cv,powers[i]-1.0)
TermDerivative(c, p, cv) == DMulInt(pow(cv, p - 1), DMulInt(p, c))

\* a loop that leaves after its first iteration
CalculateLoopOnce(cs, as, ps, per, xs, n, combine, ders) ==
    LET cv == difference(per, as[1], xs[1])
    IN  [combine |-> DAdd(combine, Term(cs[1], ps[1], cv)),
         derivs  |-> addDerivative(ders, 0, TermDerivative(cs[1], ps[1], cv))]

\* a loop whose body never runs
CalculateLoopEmpty(cs, as, ps, per, xs, n, combine, ders) ==
    [combine |-> combine, derivs |-> ders]

\* lines 194-198: the loop over the coefficients, from its iteration n
RECURSIVE CalculateLoop(_, _, _, _, _, _, _, _)
CalculateLoop(cs, as, ps, per, xs, n, combine, ders) ==
    IF n >= Len(cs) THEN [combine |-> combine, derivs |-> ders]
    ELSE LET cv == difference(per, as[n + 1], xs[n + 1])
         IN  CalculateLoop(cs, as, ps, per, xs, n + 1,
                           DAdd(combine, Term(cs[n + 1], ps[n + 1], cv)),
                           addDerivative(ders, n,
                               TermDerivative(cs[n + 1], ps[n + 1], cv)))

\* the entry of the first task in place of the entry of task ind
TaskEntryFirst(v, ind) == v[1]

\* coefficients[ind], parameters[ind], powers[ind]
TaskEntry(v, ind) == v[ind + 1]

\* an evaluation that takes the single-input branch whatever args holds
calculateFunctionSingle(cs, as, ps, numbered, per, xs, ind, ders) ==
    LET cv == difference(per, as[ind + 1], xs[1])
    IN  [value  |-> DMulInt(pow(cv, ps[ind + 1]), cs[ind + 1]),
         derivs |-> addDerivative(ders, 0,
                       DMulInt(pow(cv, ps[ind + 1] - 1),
                               DMulInt(ps[ind + 1], cs[ind + 1])))]

\* lines 186-201: the value and the derivatives the call leaves in a myvals
\* that held ders
calculateFunction(cs, as, ps, numbered, per, xs, ind, ders) ==
    LET r == IF Len(xs) = 1 /\ ~numbered
             THEN LET c  == TaskEntry(cs, ind)
                      p  == TaskEntry(ps, ind)
                      cv == difference(per, TaskEntry(as, ind), xs[1])
                  IN  [combine |-> Term(c, p, cv),
                       derivs  |-> addDerivative(ders, 0,
                                                 TermDerivative(c, p, cv))]
             ELSE CalculateLoop(cs, as, ps, per, xs, 0, DZero(0), ders)
    IN  [value |-> r.combine, derivs |-> r.derivs]

\* the caller hands in the arguments of a task and a cleared myvals
StartTask ==
    /\ epc \in {"ready", "evaluated", "repeated"}
    /\ \E xs \in [1..nargs -> ArgValues], ind \in 0..(NumberOfTasks - 1) :
          /\ args' = xs
          /\ taskIndex' = ind
    /\ value' = DZero(0)
    /\ derivs' = [k \in 1..nargs |-> DZero(0)]
    /\ epc' = "pending"
    /\ UNCHANGED <<cvars, periodic>>

\* a member the call leaves rotated by one place
RotatedMember(v) == Tail(v) \o <<v[1]>>

\* calculateFunction is const: a member has after the call the value it had
ConstMember(v) == v

\* Combine::calculateFunction on the pending task
CalculateFunction ==
    /\ epc = "pending"
    /\ LET r == calculateFunction(coefficients, parameters, powers,
                                  numberedkeys, periodic, args, taskIndex,
                                  derivs)
       IN  /\ value' = r.value
           /\ derivs' = r.derivs
    /\ coefficients' = ConstMember(coefficients)
    /\ parameters' = ConstMember(parameters)
    /\ powers' = ConstMember(powers)
    /\ epc' = "evaluated"
    /\ UNCHANGED <<cpc, numberedkeys, nargs, nscalar, kwCoefficients,
                   kwParameters, kwPowers, kwNormalize, normalize, cerr,
                   periodic, args, taskIndex>>

\* the caller clears myvals and calls Combine::calculateFunction once more
\* with the arguments and the task index of the call before
RepeatTask ==
    /\ epc = "evaluated"
    /\ LET r == calculateFunction(coefficients, parameters, powers,
                                  numberedkeys, periodic, args, taskIndex,
                                  [k \in 1..nargs |-> DZero(0)])
       IN  /\ value' = r.value
           /\ derivs' = r.derivs
    /\ coefficients' = ConstMember(coefficients)
    /\ parameters' = ConstMember(parameters)
    /\ powers' = ConstMember(powers)
    /\ epc' = "repeated"
    /\ UNCHANGED <<cpc, numberedkeys, nargs, nscalar, kwCoefficients,
                   kwParameters, kwPowers, kwNormalize, normalize, cerr,
                   periodic, args, taskIndex>>

NextCalc ==
    \/ StartTask
    \/ CalculateFunction
    \/ RepeatTask

\* the object the constructor has left is handed to the task loop; its
\* arguments are numbered, or all scalars, or one vector
FirstTask ==
    /\ cpc = "constructed"
    /\ epc = "none"
    /\ numberedkeys \/ nargs = 1 \/ nargs = nscalar
    /\ epc' = "ready"
    /\ UNCHANGED <<cvars, periodic, args, taskIndex, value, derivs>>

(* ------------------------------------- NL_STRIDE: the neighbour list *)
\* largest number of windows (tasks), largest NL_STRIDE, last step
MaxWindows == 2
MaxStride == 3
MaxStep == 6

VARIABLES
    updateFreq,    \* NL_STRIDE; 0 when the keyword is absent
    step,          \* the step of the simulation
    npc,           \* position within the step: moved, calculated
    contribution,  \* per window: its contribution at this step is at least TOL
    activeTask,    \* per window: the classification kept between the steps
    computed,      \* per window: it has been evaluated at this step
    lastUpdate,    \* history: the last step at which the list was updated
    atUpdate       \* history: contribution as it was at that step

nvars == <<updateFreq, step, npc, contribution, activeTask, computed,
           lastUpdate, atUpdate>>

IdleStride ==
    /\ updateFreq = 0
    /\ step = 0
    /\ npc = "none"
    /\ contribution = <<>>
    /\ activeTask = <<>>
    /\ computed = <<>>
    /\ lastUpdate = 0
    /\ atUpdate = <<>>

Everywhere(n, b) == [w \in 1..n |-> b]

\* a constructed action before the calculation of its first step: nothing is
\* ignored yet
InitStride ==
    /\ updateFreq \in 0..MaxStride
    /\ step = 0
    /\ npc = "moved"
    /\ \E n \in 1..MaxWindows :
          /\ contribution \in [1..n -> BOOLEAN]
          /\ activeTask = Everywhere(n, TRUE)
          /\ computed = Everywhere(n, FALSE)
          /\ atUpdate = Everywhere(n, TRUE)
    /\ lastUpdate = 0

\* an update that comes one step late
IsUpdateStepLate(s, n) == IF n = 0 THEN TRUE ELSE s % (n + 1) = 0

\* the list is updated every n steps; without NL_STRIDE nothing is ever ignored
IsUpdateStep(s, n) == IF n = 0 THEN TRUE ELSE s % n = 0

\* the quantities that contributed less than TOL are ignored until the next
\* update
KeptActive(contributes) == contributes

\* a neighbour list update step: every window is evaluated, then classified
UpdateStep ==
    /\ npc = "moved"
    /\ IsUpdateStep(step, updateFreq)
    /\ computed' = Everywhere(Len(contribution), TRUE)
    /\ activeTask' = [w \in 1..Len(contribution) |->
                        KeptActive(contribution[w])]
    /\ atUpdate' = contribution
    /\ lastUpdate' = step
    /\ npc' = "calculated"
    /\ UNCHANGED <<updateFreq, step, contribution>>

\* a step between two updates: the windows classified as ignored are skipped
SkipStep ==
    /\ npc = "moved"
    /\ ~IsUpdateStep(step, updateFreq)
    /\ computed' = activeTask
    /\ npc' = "calculated"
    /\ UNCHANGED <<updateFreq, step, contribution, activeTask, lastUpdate,
                   atUpdate>>

\* the atoms move: at the next step any window may contribute or not
NextStep ==
    /\ npc = "calculated"
    /\ step < MaxStep
    /\ step' = step + 1
    /\ contribution' \in [1..Len(contribution) -> BOOLEAN]
    /\ computed' = Everywhere(Len(contribution), FALSE)
    /\ npc' = "moved"
    /\ UNCHANGED <<updateFreq, activeTask, lastUpdate, atUpdate>>

NextStride ==
    \/ UpdateStep
    \/ SkipStep
    \/ NextStep

(* ------------------------------ ContinuousSSRMSD::readBackboneAtoms *)
\* largest number of an ATOMS keyword on the input line
MaxKeys == 4

\* an ATOMS keyword that the input line does not hold
AbsentKey == [present |-> FALSE, atoms |-> <<>>]

\* ATOMSn=v on the input line
Keyword(v) == [present |-> TRUE, atoms |-> v]

\* the atom lists an ATOMS keyword may hold; the empty list is ATOMSn= with
\* nothing after it
AtomLists == {<<>>, <<1>>, <<2, 3>>}

VARIABLES
    kwAtoms,     \* the input line: for n in 1..MaxKeys, ATOMSn or AbsentKey
    backatoms,   \* std::vector< std::vector<AtomNumber> > &backatoms
    backatoms0,  \* history: backatoms as the caller handed it in
    tlist,       \* std::vector<AtomNumber> t
    ri,          \* int i of the loop
    rpc          \* position: loop, done

rvars == <<kwAtoms, backatoms, backatoms0, tlist, ri, rpc>>

IdleRead ==
    /\ kwAtoms = <<>>
    /\ backatoms = <<>>
    /\ backatoms0 = <<>>
    /\ tlist = <<>>
    /\ ri = 0
    /\ rpc = "none"

\* entry of readBackboneAtoms: t is empty, i is 1
InitRead ==
    /\ kwAtoms \in [1..MaxKeys -> {Keyword(v) : v \in AtomLists} \cup {AbsentKey}]
    /\ backatoms \in {<<>>, << <<7, 8>> >>}
    /\ backatoms0 = backatoms
    /\ tlist = <<>>
    /\ ri = 1
    /\ rpc = "loop"

\* parseAtomList("ATOMS", n, v): v becomes the list of ATOMSn; v is left as
\* it is when the line holds no ATOMSn
parseAtomList(kw, n, v) ==
    IF n \in DOMAIN kw /\ kw[n].present THEN kw[n].atoms ELSE v

\* t is left as it is at the end of the iteration
NotResized(v) == v

\* t.resize(0)
ResizeToZero(v) == <<>>

\* lines 111-117: an iteration that finds atoms and appends them
ReadChain ==
    /\ rpc = "loop"
    /\ LET parsed == parseAtomList(kwAtoms, ri, tlist)
       IN  /\ parsed # <<>>
           /\ backatoms' = Append(backatoms, parsed)
           /\ tlist' = ResizeToZero(parsed)
    /\ ri' = ri + 1
    /\ UNCHANGED <<kwAtoms, backatoms0, rpc>>

\* lines 111-112: the iteration that finds t empty and breaks
ReadBreak ==
    /\ rpc = "loop"
    /\ LET parsed == parseAtomList(kwAtoms, ri, tlist)
       IN  /\ parsed = <<>>
           /\ tlist' = parsed
    /\ rpc' = "done"
    /\ UNCHANGED <<kwAtoms, backatoms, backatoms0, ri>>

NextRead ==
    \/ ReadChain
    \/ ReadBreak

\* the state of the part of the program a specification leaves alone
IdleCombine ==
    /\ cpc = "idle"
    /\ numberedkeys = FALSE
    /\ nargs = 0
    /\ nscalar = 0
    /\ kwCoefficients = NotRead
    /\ kwParameters = NotRead
    /\ kwPowers = NotRead
    /\ kwNormalize = FALSE
    /\ normalize = FALSE
    /\ coefficients = <<>>
    /\ parameters = <<>>
    /\ powers = <<>>
    /\ cerr = "none"

IdleSS ==
    /\ action = "none"
    /\ genericRes = 0
    /\ chains = <<>>
    /\ pc = "idle"
    /\ i = 0
    /\ nprevious = 0
    /\ colvars = <<>>
    /\ colvarChain = <<>>
    /\ blocks = <<>>
    /\ errmsg = "none"
    /\ secondary = <<>>
    /\ nSetSS = 0

(* ------------------------------------------------------- specifications *)
vars == <<ssvars, cvars, evars, nvars, rvars>>

\* construction of a peptoid secondary structure action
Init == InitSS /\ IdleCombine /\ IdleCalc /\ IdleStride /\ IdleRead
Next == NextSS /\ UNCHANGED <<cvars, evars, nvars, rvars>>
Spec == Init /\ [][Next]_vars

\* construction of a COMBINE action
InitC == IdleSS /\ InitCombine /\ IdleCalc /\ IdleStride /\ IdleRead
NextC == NextCombine /\ UNCHANGED <<ssvars, evars, nvars, rvars>>
SpecCombine == InitC /\ [][NextC]_vars

\* evaluation of the tasks of a constructed COMBINE action
InitE == IdleSS /\ InitCalc /\ IdleStride /\ IdleRead
NextE == NextCalc /\ UNCHANGED <<ssvars, nvars, rvars>>
SpecCalc == InitE /\ [][NextE]_vars

\* the steps of a simulation with a neighbour list
InitN == IdleSS /\ IdleCombine /\ IdleCalc /\ InitStride /\ IdleRead
NextN == NextStride /\ UNCHANGED <<ssvars, cvars, evars, rvars>>
SpecStride == InitN /\ [][NextN]_vars

\* evaluation of the tasks of a COMBINE action with a single scalar input
InitS == IdleSS /\ InitSingle /\ IdleStride /\ IdleRead
SpecSingle == InitS /\ [][NextE]_vars

\* the life of a COMBINE action: its construction, then its tasks
NextL ==
    \/ NextCombine /\ UNCHANGED <<ssvars, evars, nvars, rvars>>
    \/ FirstTask /\ UNCHANGED <<ssvars, nvars, rvars>>
    \/ StartTask /\ UNCHANGED <<ssvars, nvars, rvars>>
    \/ CalculateFunction /\ UNCHANGED <<ssvars, nvars, rvars>>
SpecLife == InitC /\ [][NextL]_vars

\* one call of readBackboneAtoms; the loop is sequential code, so an
\* iteration that can be taken is taken
InitR == IdleSS /\ IdleCombine /\ IdleCalc /\ IdleStride /\ InitRead
NextR == NextRead /\ UNCHANGED <<ssvars, cvars, evars, nvars>>
SpecRead == InitR /\ [][NextR]_vars /\ WF_vars(NextR)

(* ============================================================== claims *)
RECURSIVE SumSeq(_)
SumSeq(q) == IF q = <<>> THEN 0 ELSE q[1] + SumSeq(Tail(q))

\* atoms of the chains before chain j (1-based): the chain's start offset
Offset(j) == SumSeq(SubSeq(chains, 1, j - 1))

\* points of the template the action under construction compares against
TemplateLen ==
    IF action = AlphaDPlusCisAction THEN AlphaDPlusCisNatoms
    ELSE Len(getRefStructure(action, genericRes))

TemplateRes == TemplateLen \div ATOMS_IN_BB_RES

IsContinuous == action # AlphaDPlusCisAction

\* the addColvar calls init made for chain j (1-based)
WindowsOf(j) == {w \in 1..Len(colvars) : colvarChain[w] = j - 1}

Range(q) == {q[k] : k \in 1..Len(q)}

\* C1: for every chain init has passed (at "done": every chain), a chain of
\* L residues against a template of T residues got exactly L - T + 1 windows;
\* a chain of 10 residues against 3 template residues got exactly 8.
C1_WindowCount ==
    IsContinuous =>
        \A j \in 1..i :
            /\ Cardinality(WindowsOf(j))
                 = chains[j] \div ATOMS_IN_BB_RES - TemplateRes + 1
            /\ (chains[j] = 50 /\ TemplateLen = 15)
                 => Cardinality(WindowsOf(j)) = 8

C1_Witness ==
    /\ IsContinuous
    /\ pc = "done"
    /\ action \in ContinuousActions
    /\ \E j \in 1..Len(chains) :
         chains[j] = 50 /\ Cardinality(WindowsOf(j)) = 8

\* C2: the ALPHADPLUSCISRMSD constructor registers, for every chain of L
\* residues it accepts, exactly L - RES_IN_REF + 1 windows.
C2_AlphaDPlusCisWindowCount ==
    action = AlphaDPlusCisAction =>
        \A j \in 1..Len(blocks) :
            blocks[j].count
              = ToLimbs(chains[j] \div ATOMS_IN_BB_RES - RES_IN_REF + 1,
                        UnsignedLimbs)

\* the first chain with fewer atoms than the template / with a partial residue
ShortChains == {j \in 1..Len(chains) : chains[j] < TemplateLen}
PartialChains == {j \in 1..Len(chains) : chains[j] % ATOMS_IN_BB_RES # 0}

\* C3: when some chain of the list, at whatever position, has fewer atoms
\* than the template, construction never completes (setSecondaryStructure
\* is never reached), the loop never gets past that chain, and the only way
\* the constructor ends is an error().
C3_ShortChainFails ==
    ShortChains # {} =>
        /\ pc \in {"start", "loop", "error"}
        /\ nSetSS = 0
        /\ \A j \in ShortChains : i < j

C3_Witness ==
    /\ Len(chains) = 2
    /\ chains[1] = 15
    /\ chains[2] = 10
    /\ TemplateLen = 15
    /\ pc = "error"
    /\ errmsg = "not_long_enough"
    /\ i = 1

\* C4: when some chain of the list, at whatever position, has an atom count
\* that is no multiple of 5, construction ends in an error() and never
\* completes; and every chain windows were enumerated for holds whole
\* residues only.
C4_PartialResidueFails ==
    /\ PartialChains # {} =>
          /\ pc \in {"start", "loop", "error"}
          /\ nSetSS = 0
          /\ \A j \in PartialChains : i < j
    /\ \A w \in 1..Len(colvars) :
          chains[colvarChain[w] + 1] % ATOMS_IN_BB_RES = 0
    /\ \A j \in 1..Len(blocks) : chains[j] % ATOMS_IN_BB_RES = 0

C4_Witness ==
    /\ Len(chains) = 2
    /\ chains[1] = 20
    /\ chains[2] = 16
    /\ pc = "error"
    /\ errmsg = "not_multiple"
    /\ i = 1
    /\ (Len(colvars) > 0 \/ Len(blocks) > 0)

\* C5: every window init registered has as many atom indices as the
\* template has points, the indices are consecutive, and the window starts
\* and ends on residue boundaries of its chain.
C5_WindowShape ==
    IsContinuous =>
        \A w \in 1..Len(colvars) :
            LET nl == colvars[w]
                o  == Offset(colvarChain[w] + 1)
            IN  /\ Len(nl) = TemplateLen
                /\ \A k \in 1..(Len(nl) - 1) : nl[k + 1] = nl[k] + 1
                /\ nl[1] >= o
                /\ (nl[1] - o) % ATOMS_IN_BB_RES = 0
                /\ (nl[Len(nl)] + 1 - o) % ATOMS_IN_BB_RES = 0

C5_Witness ==
    /\ IsContinuous
    /\ pc = "done"
    /\ Len(chains) = 2
    /\ \E w \in 1..Len(colvars) :
         /\ colvarChain[w] = 1
         /\ colvars[w][1] = Offset(2) + 2 * ATOMS_IN_BB_RES
         /\ Len(colvars[w]) = 15

\* C6: every atom index of a window registered from chain c lies in
\* [offset_c, offset_c + n_c); windows of different chains share no atom.
C6_WithinChain ==
    IsContinuous =>
        /\ \A w \in 1..Len(colvars) :
              LET j == colvarChain[w] + 1
              IN  \A a \in Range(colvars[w]) :
                      Offset(j) <= a /\ a < Offset(j) + chains[j]
        /\ \A w1, w2 \in 1..Len(colvars) :
              colvarChain[w1] # colvarChain[w2]
                => Range(colvars[w1]) \cap Range(colvars[w2]) = {}

C6_Witness ==
    /\ IsContinuous
    /\ pc = "done"
    /\ \E w1, w2 \in 1..Len(colvars) :
         /\ colvarChain[w1] = 0
         /\ colvarChain[w2] = 1
         /\ colvars[w1][Len(colvars[w1])] + 1 = colvars[w2][1]

\* number of addColvar calls made so far, as an unsigned value
RECURSIVE BlockTotal(_)
BlockTotal(bs) ==
    IF bs = <<>> THEN ToLimbs(0, UnsignedLimbs)
    ELSE LimbAdd(bs[1].count, BlockTotal(Tail(bs)))

TotalColvars ==
    IF IsContinuous THEN ToLimbs(Len(colvars), UnsignedLimbs)
    ELSE BlockTotal(blocks)

\* the nlist of the first addColvar call
FirstColvar ==
    IF IsContinuous THEN colvars[1]
    ELSE NList(blocks[1].first, blocks[1].len)

\* coordinates of C7's input: atom a sits at point a of the stored template
TemplatePositions == [a \in 0..(Len(secondary) - 1) |-> secondary[a + 1]]

\* Structural distance of a window (spec 4.2 and 8): it is 0 when the
\* window's coordinates are identical to the template's; the switching
\* contribution at distance d0 = 0 is then 1 (spec 4.3)
DistanceIsZero(nl, positions) ==
    /\ Len(nl) = Len(secondary)
    /\ \A k \in 1..Len(nl) :
          nl[k] \in DOMAIN positions /\ positions[nl[k]] = secondary[k]

\* Sum reducer (spec 4.4) over the registered windows equals 1: one window,
\* whose contribution is 1
SumReducerIsOne ==
    /\ TotalColvars = ToLimbs(1, UnsignedLimbs)
    /\ DistanceIsZero(FirstColvar, TemplatePositions)

\* C7: for a single chain of exactly 15 atoms placed on the 15 template
\* points, every registered motif action ends with exactly one window, of
\* atom indices 0..14, and the sum reducer's output is 1.
C7_EndToEnd ==
    (action \in RegisteredActions /\ pc = "done" /\ chains = <<15>>) =>
        /\ TotalColvars = ToLimbs(1, UnsignedLimbs)
        /\ FirstColvar = [k \in 1..15 |-> k - 1]
        /\ SumReducerIsOne

(* ------------------------------------------------------ claims: Combine *)
\* the coefficients the input line asks for: the values of COEFFICIENTS,
\* or its default 1.0 for every input
GivenCoefficients ==
    IF kwCoefficients.given THEN kwCoefficients.vals
    ELSE [k \in 1..NumberOfInputs |-> 1]

GivenSum == SumSeq(GivenCoefficients)

IsFinite(x) == x.k \in {"num", "zero"}

\* C8: with NORMALIZE on the input line and given coefficients of sum zero
\* the constructor ends in an error(), and no stored coefficient is the
\* result of a division by zero.
C8_ZeroSumRejected ==
    (kwNormalize /\ GivenSum = 0) =>
        /\ cpc = "error"
        /\ \A k \in 1..Len(coefficients) : IsFinite(coefficients[k])

\* smallest exponent among the non-zero entries of cs
DMinExp(cs) ==
    LET es == {cs[k].e : k \in {j \in 1..Len(cs) : cs[j].k = "num"}}
    IN  CHOOSE e \in es : \A f \in es : e <= f

\* sum, in units of 2^emin, of the magnitudes of the entries of sign s
RECURSIVE DSignedSumFrom(_, _, _, _)
DSignedSumFrom(cs, k, s, emin) ==
    IF k > Len(cs) THEN <<>>
    ELSE BAdd(IF cs[k].k = "num" /\ cs[k].s = s
              THEN BShl(cs[k].m, cs[k].e - emin) ELSE <<>>,
              DSignedSumFrom(cs, k + 1, s, emin))

\* the real-number sum of the doubles of cs is exactly 1
ExactSumIsOne(cs) ==
    /\ \A k \in 1..Len(cs) : IsFinite(cs[k])
    /\ \E k \in 1..Len(cs) : cs[k].k = "num"
    /\ LET emin == DMinExp(cs)
       IN  /\ emin <= 0
           /\ DSignedSumFrom(cs, 1, 0, emin)
                = BAdd(DSignedSumFrom(cs, 1, 1, emin), BShl(<<1>>, 0 - emin))

\* the double x is c/n up to a relative error of 2^-51:
\* | |x|*|n| - |c| | <= |c| * 2^-51, with the sign of c/n
WithinRounding(x, c, n) ==
    IF c = 0 THEN x.k = "zero"
    ELSE /\ x.k = "num"
         /\ x.s = Xor(SignBit(c), SignBit(n))
         /\ x.e <= 0
         /\ LET prod == BShl(BMulSmall(x.m, Abs(n)), DoubleBits - 2)
                want == BShl(BitsOf(Abs(c)), DoubleBits - 2 - x.e)
                tol  == BShl(BitsOf(Abs(c)), 0 - x.e)
            IN  /\ BLeq(prod, BAdd(want, tol))
                /\ BLeq(want, BAdd(prod, tol))

IsPowerOfTwo(n) == \E k \in 0..30 : n = 2^k

StoredAsGiven ==
    coefficients = [k \in 1..Len(GivenCoefficients) |->
                      DFromInt(GivenCoefficients[k])]

\* C9 as stated: with NORMALIZE and a non-zero sum the stored coefficients
\* sum to exactly 1 and each is the given coefficient divided by the sum
\* (the double nearest to the quotient); without NORMALIZE they are the
\* given ones.
C9_NormalizedExactly ==
    cpc = "constructed" =>
        IF kwNormalize
        THEN GivenSum # 0 =>
               /\ ExactSumIsOne(coefficients)
               /\ \A k \in 1..Len(coefficients) :
                     coefficients[k] = DDivInt(GivenCoefficients[k], GivenSum)
        ELSE StoredAsGiven

\* C9, amended: with NORMALIZE and a non-zero sum n every stored coefficient
\* is the product of the given one with the double 1.0/n: it has the sign of
\* c/n and is within a relative error of 2^-51 of it, and when |n| is a
\* power of two it is the double nearest c/n and the stored coefficients sum
\* to exactly 1; without NORMALIZE the stored coefficients are the given
\* ones.
C9_Normalized ==
    cpc = "constructed" =>
        IF kwNormalize
        THEN GivenSum # 0 =>
               /\ Len(coefficients) = Len(GivenCoefficients)
               /\ \A k \in 1..Len(coefficients) :
                     WithinRounding(coefficients[k], GivenCoefficients[k],
                                    GivenSum)
               /\ IsPowerOfTwo(Abs(GivenSum)) =>
                     /\ \A k \in 1..Len(coefficients) :
                           coefficients[k]
                             = DDivInt(GivenCoefficients[k], GivenSum)
                     /\ ExactSumIsOne(coefficients)
        ELSE StoredAsGiven

C9_Witness ==
    /\ cpc = "constructed"
    /\ kwNormalize
    /\ GivenCoefficients = <<3, 2>>
    /\ coefficients[1] # DDivInt(3, 5)
    /\ WithinRounding(coefficients[1], 3, 5)
    /\ ~ExactSumIsOne(coefficients)

\* a keyword whose vector, as given, has not one entry per input
BadLength(kw) == kw.given /\ Len(kw.vals) # NumberOfInputs

\* C10: a COEFFICIENTS, PARAMETERS or POWERS vector whose length differs
\* from the number of inputs ends the constructor in an error(), which
\* names the first such vector in the order coefficients, parameters,
\* powers; a constructed object holds one entry per input in each vector.
C10_SizeMismatchFails ==
    /\ BadLength(kwCoefficients) => cpc = "error" /\ cerr = "coefficients"
    /\ BadLength(kwParameters) => cpc = "error" /\ cerr = "parameters"
    /\ BadLength(kwPowers) => cpc = "error" /\ cerr = "powers"
    /\ cerr = "coefficients" => BadLength(kwCoefficients)
    /\ cerr = "parameters" =>
          ~BadLength(kwCoefficients) /\ BadLength(kwParameters)
    /\ cerr = "powers" =>
          /\ ~BadLength(kwCoefficients)
          /\ ~BadLength(kwParameters)
          /\ BadLength(kwPowers)
    /\ cpc = "constructed" =>
          /\ Len(coefficients) = NumberOfInputs
          /\ Len(parameters) = NumberOfInputs
          /\ Len(powers) = NumberOfInputs

C10_Witness ==
    /\ cpc = "error"
    /\ cerr = "parameters"
    /\ ~numberedkeys
    /\ nargs = 1
    /\ nscalar = 2
    /\ kwCoefficients.given
    /\ Len(kwCoefficients.vals) = 2
    /\ kwParameters.given
    /\ Len(kwParameters.vals) = 1

(* -------------------------------------------- claims: calculateFunction *)
\* the offsets and powers the input line asks for (defaults 0.0 and 1.0)
GivenParameters ==
    IF kwParameters.given THEN kwParameters.vals
    ELSE [k \in 1..NumberOfInputs |-> 0]

GivenPowers ==
    IF kwPowers.given THEN kwPowers.vals
    ELSE [k \in 1..NumberOfInputs |-> 1]

\* more than one input value, or numbered keys
ExplicitMode == Len(args) > 1 \/ numberedkeys

\* exactly one input value per task and no numbered keys
RepeatedMode == Len(args) = 1 /\ ~numberedkeys

\* x - a for input x and offset a: the plain difference, or for a periodic
\* input its representative in [-PeriodLength/2, PeriodLength/2)
DifferenceTo(a, x) ==
    IF periodic
    THEN CHOOSE d \in (0 - PeriodLength \div 2)..(PeriodLength \div 2 - 1) :
            (x - a - d) % PeriodLength = 0
    ELSE x - a

\* (x_k - a_k) for input k of the explicit mode
InputDifference(k) == DifferenceTo(GivenParameters[k], args[k])

\* c_1 (x_1 - a_1)^p_1 + ... + c_n (x_n - a_n)^p_n, added up in doubles in
\* this order from 0.0, with the stored coefficients
RECURSIVE PrefixSum(_)
PrefixSum(n) ==
    IF n = 0 THEN DZero(0)
    ELSE DAdd(PrefixSum(n - 1),
              DMulInt(InputDifference(n) ^ GivenPowers[n], coefficients[n]))

\* the same sum over the integers, with the given coefficients
RECURSIVE IntegerSum(_)
IntegerSum(n) ==
    IF n = 0 THEN 0
    ELSE IntegerSum(n - 1)
         + GivenCoefficients[n] * InputDifference(n) ^ GivenPowers[n]

\* C11: in the explicit mode the value calculateFunction returns is the sum
\* over every input i of c_i * (x_i - a_i)^p_i, one term per input, x_i - a_i
\* being the periodic-aware difference; for coefficients that are not
\* normalised it is the sum computed over the integers.
C11_ExplicitSum ==
    (epc = "evaluated" /\ ExplicitMode) =>
        /\ Len(args) = NumberOfInputs
        /\ value = PrefixSum(NumberOfInputs)
        /\ ~kwNormalize => value = DFromInt(IntegerSum(NumberOfInputs))

C11_Witness ==
    /\ epc = "evaluated"
    /\ ~numberedkeys
    /\ periodic
    /\ ~kwNormalize
    /\ GivenCoefficients = <<1, 2, 2>>
    /\ GivenParameters = <<0, 0, 0>>
    /\ GivenPowers = <<1, 1, 1>>
    /\ args = <<1, 2, 1>>
    /\ value = DFromInt(0 - 1)

\* b^n with b^0 = 1 for every b
IntPower(b, n) == IF n = 0 THEN 1 ELSE b ^ n

\* c * p * d^(p - 1) in doubles, as (c * p) * d^(p - 1)
DerivativeOf(c, p, d) == DMulInt(IntPower(d, p - 1), DMulInt(p, c))

\* C12: in the explicit mode myvals holds one derivative slot per input and
\* slot i holds c_i * p_i * (x_i - a_i)^(p_i - 1) and nothing else, for
\* periodic inputs too (the difference contributes the factor 1); for
\* coefficients that are not normalised it is that product over the integers.
C12_Derivatives ==
    (epc = "evaluated" /\ ExplicitMode) =>
        /\ Len(derivs) = NumberOfInputs
        /\ \A k \in 1..NumberOfInputs :
              /\ derivs[k] = DerivativeOf(coefficients[k], GivenPowers[k],
                                          InputDifference(k))
              /\ ~kwNormalize =>
                    derivs[k] = DFromInt(GivenCoefficients[k] * GivenPowers[k]
                                  * IntPower(InputDifference(k),
                                             GivenPowers[k] - 1))

C12_Witness ==
    /\ epc = "evaluated"
    /\ ExplicitMode
    /\ periodic
    /\ GivenCoefficients = <<1, 2>>
    /\ GivenParameters = <<0, 0>>
    /\ GivenPowers = <<2, 2>>
    /\ args = <<1, 2>>
    /\ derivs = <<DFromInt(2), DFromInt(0 - 8)>>

\* coefficients 1, offsets 0 and powers 1 for every input, not normalised
AllDefaultValues ==
    /\ ~kwNormalize
    /\ \A k \in 1..NumberOfInputs :
          /\ GivenCoefficients[k] = 1
          /\ GivenParameters[k] = 0
          /\ GivenPowers[k] = 1

\* C13: with all coefficients 1, all offsets 0 and all powers 1, which is
\* what the object holds when COEFFICIENTS, PARAMETERS and POWERS are not
\* given, and inputs that are not periodic, the value is the plain sum of the
\* inputs of the task and every derivative is 1.
C13_PlainSum ==
    /\ (~kwCoefficients.given /\ ~kwParameters.given /\ ~kwPowers.given
          /\ ~kwNormalize) =>
            /\ AllDefaultValues
            /\ coefficients = [k \in 1..NumberOfInputs |-> DFromInt(1)]
            /\ parameters = [k \in 1..NumberOfInputs |-> 0]
            /\ powers = [k \in 1..NumberOfInputs |-> 1]
    /\ (epc = "evaluated" /\ ~periodic /\ AllDefaultValues) =>
            /\ value = DFromInt(SumSeq(args))
            /\ derivs = [k \in 1..Len(args) |-> DFromInt(1)]

C13_Witness ==
    /\ epc = "evaluated"
    /\ ~periodic
    /\ ~kwCoefficients.given
    /\ ~kwParameters.given
    /\ ~kwPowers.given
    /\ ~kwNormalize
    /\ args = <<2, 1, 2>>
    /\ value = DFromInt(5)
    /\ derivs = <<DFromInt(1), DFromInt(1), DFromInt(1)>>

\* the members with the triple of index j (1-based) replaced by another one
OtherTriple(j) ==
    [cs |-> [coefficients EXCEPT ![j] = DFromInt(7)],
     as |-> [parameters EXCEPT ![j] = 3],
     ps |-> [powers EXCEPT ![j] = 3]]

\* C14: in the repeated mode the task of index k returns
\* c_k * (x - a_k)^p_k and, in slot 0 and in no other slot, the derivative
\* c_k * p_k * (x - a_k)^(p_k - 1), with the triple at index k; the
\* call returns the same with any other task's triple replaced.
C14_RepeatedPattern ==
    (epc = "evaluated" /\ RepeatedMode) =>
        LET k == taskIndex + 1
            d == DifferenceTo(GivenParameters[k], args[1])
        IN  /\ k \in 1..NumberOfInputs
            /\ value = DMulInt(IntPower(d, GivenPowers[k]), coefficients[k])
            /\ ~kwNormalize =>
                  value = DFromInt(GivenCoefficients[k]
                                     * IntPower(d, GivenPowers[k]))
            /\ derivs = <<DerivativeOf(coefficients[k], GivenPowers[k], d)>>
            /\ \A j \in (1..NumberOfInputs) \ {k} :
                  LET o == OtherTriple(j)
                      r == calculateFunction(o.cs, o.as, o.ps, numberedkeys,
                                             periodic, args, taskIndex,
                                             <<DZero(0)>>)
                  IN  r.value = value /\ r.derivs = derivs

C14_Witness ==
    /\ epc = "evaluated"
    /\ RepeatedMode
    /\ nscalar = 3
    /\ taskIndex = 2
    /\ ~periodic
    /\ ~kwNormalize
    /\ GivenCoefficients = <<1, 1, 2>>
    /\ GivenParameters = <<1, 1, 1>>
    /\ GivenPowers = <<2, 2, 2>>
    /\ args = <<2>>
    /\ value = DFromInt(2)
    /\ derivs = <<DFromInt(4)>>

SwapAt(v, k) ==
    [j \in 1..Len(v) |-> IF j = k THEN v[k + 1]
                         ELSE IF j = k + 1 THEN v[k] ELSE v[j]]

\* the result of the task when input k and input k + 1 change places together
\* with their coefficients, parameters and powers
SwappedResult(k) ==
    calculateFunction(SwapAt(coefficients, k), SwapAt(parameters, k),
                      SwapAt(powers, k), numberedkeys, periodic,
                      SwapAt(args, k), taskIndex,
                      [j \in 1..Len(args) |-> DZero(0)])

\* C17 as stated: the result does not depend on the order of the terms:
\* exchanging two neighbouring inputs together with their (coefficient,
\* parameter, power) triples leaves the value unchanged and exchanges the two
\* derivatives. Every permutation is a product of such exchanges.
C17_OrderIndependent ==
    (epc = "evaluated" /\ Len(args) > 1) =>
        \A k \in 1..(Len(args) - 1) :
            LET r == SwappedResult(k)
            IN  r.value = value /\ r.derivs = SwapAt(derivs, k)

\* C17: exchanging two neighbouring inputs together with their triples
\* exchanges the two derivatives and leaves the others alone; it leaves the
\* value unchanged when there are two inputs, and for any number of inputs
\* when the coefficients are the integers given (all terms and partial sums
\* are then exact). Normalised coefficients of three or more inputs are
\* outside this statement.
C17_TermsPermute ==
    (epc = "evaluated" /\ Len(args) > 1) =>
        \A k \in 1..(Len(args) - 1) :
            LET r == SwappedResult(k)
            IN  /\ r.derivs = SwapAt(derivs, k)
                /\ (Len(args) = 2 \/ ~normalize) => r.value = value

\* three inputs with distinct triples have been combined: 1*1 + 2*4 + 2*1
C17_Witness ==
    /\ epc = "evaluated"
    /\ Len(args) = 3
    /\ ~periodic
    /\ ~normalize
    /\ GivenCoefficients = <<1, 2, 2>>
    /\ GivenParameters = <<0, 0, 0>>
    /\ GivenPowers = <<2, 2, 2>>
    /\ args = <<1, 2, 1>>
    /\ value = DFromInt(11)
    /\ derivs = <<DFromInt(2), DFromInt(8), DFromInt(4)>>
    /\ SwappedResult(1).derivs = <<DFromInt(8), DFromInt(2), DFromInt(4)>>

(* ----------------------------------------- claims: sections and windows *)
\* residues of a section according to the documentation of the motif actions
DocumentedResidues == 6

\* the sections of r residues of chain j (1-based), as lists of atom indices
SectionsOf(j, r) ==
    {[k \in 1..(r * ATOMS_IN_BB_RES) |->
         Offset(j) + ATOMS_IN_BB_RES * start + k - 1] :
       start \in 0..(chains[j] \div ATOMS_IN_BB_RES - r)}

\* C15: a motif action that has been constructed has registered, for every
\* chain, the set of all six-residue sections of the chain.
C15_SixResidueSections ==
    (pc = "done" /\ action \in RegisteredActions) =>
        IF IsContinuous
        THEN \A j \in 1..Len(chains) :
                {colvars[w] : w \in WindowsOf(j)}
                  = SectionsOf(j, DocumentedResidues)
        ELSE \A j \in 1..Len(blocks) :
                /\ blocks[j].len = DocumentedResidues * ATOMS_IN_BB_RES
                /\ blocks[j].count
                     = ToLimbs(Cardinality(SectionsOf(j, DocumentedResidues)),
                               UnsignedLimbs)


\* the windows of t atoms of the first n chains of the atom counts cs, in the
\* order of the chains and of their start residues: a function of nothing but
\* the atom counts and the template length
RECURSIVE WindowsFrom(_, _, _)
WindowsFrom(cs, t, n) ==
    IF n = 0 THEN <<>>
    ELSE LET before == SumSeq(SubSeq(cs, 1, n - 1))
             starts == (cs[n] - t) \div ATOMS_IN_BB_RES + 1
         IN  WindowsFrom(cs, t, n - 1)
             \o [r \in 1..starts |->
                   [k \in 1..t |-> before + ATOMS_IN_BB_RES * (r - 1) + k - 1]]

\* the chains of the atom counts cs that a template of t atoms rejects
RejectedChains(cs, t) ==
    {j \in 1..Len(cs) : cs[j] < t \/ cs[j] % ATOMS_IN_BB_RES # 0}

\* C18: window enumeration is deterministic and depends only on the atom
\* counts of the chains and on the template length: whatever the action and
\* the coordinates of its template are, the windows registered after i chains
\* are those WindowsFrom gives for (chains, template length, i), init ends in
\* an error exactly at the first chain the template length rejects, and it
\* completes with all chains passed when there is none.
C18_Deterministic ==
    (IsContinuous /\ pc \in {"loop", "done", "error"}) =>
        LET bad == RejectedChains(chains, TemplateLen)
        IN  /\ colvars = WindowsFrom(chains, TemplateLen, i)
            /\ \A j \in bad : i < j
            /\ pc = "error" => i + 1 \in bad
            /\ pc = "done" => i = Len(chains)

\* a motif action has enumerated chains of 4 and 3 residues against its
\* template of 15 points
C18_Witness ==
    /\ pc = "done"
    /\ action = "C7BETAPLUSTRANSRMSD"
    /\ chains = <<20, 15>>
    /\ colvars = <<NList(0, 15), NList(5, 15), NList(20, 15)>>


\* windows a chain of the atom count n has against the template
WindowsPerChain(n) == n \div ATOMS_IN_BB_RES - TemplateRes + 1

\* windows of the chains before chain j (1-based)
WindowsBefore(j) ==
    SumSeq([c \in 1..(j - 1) |-> WindowsPerChain(chains[c])])

\* the residue of its chain at which window w starts
StartResidue(w) ==
    (colvars[w][1] - Offset(colvarChain[w] + 1)) \div ATOMS_IN_BB_RES

\* C20: when init has completed, the registered windows are exactly the
\* residue-aligned contiguous windows of template length of all chains, each
\* once; their number is the sum over the chains of L_i - T + 1; they come in
\* the order of the chains and, within a chain, by ascending start residue,
\* so the window of chain c that starts at residue r has the index
\* (windows of the chains before c) + r.
C20_EveryWindowOnce ==
    (IsContinuous /\ pc = "done") =>
        /\ Range(colvars)
             = UNION {SectionsOf(j, TemplateRes) : j \in 1..Len(chains)}
        /\ \A w1, w2 \in 1..Len(colvars) :
              w1 # w2 => colvars[w1] # colvars[w2]
        /\ Len(colvars) = WindowsBefore(Len(chains) + 1)
        /\ \A w1, w2 \in 1..Len(colvars) :
              w1 < w2 =>
                \/ colvarChain[w1] < colvarChain[w2]
                \/ /\ colvarChain[w1] = colvarChain[w2]
                   /\ StartResidue(w1) < StartResidue(w2)
        /\ \A w \in 1..Len(colvars) :
              w - 1 = WindowsBefore(colvarChain[w] + 1) + StartResidue(w)

\* chains of 5 and 4 residues against a template of 3 residues: 3 + 2
\* windows, and the window of the second chain starting at its residue 1 is
\* the last one
C20_Witness ==
    /\ pc = "done"
    /\ action = "ALPHAMINUSCISRMSD"
    /\ chains = <<25, 20>>
    /\ Len(colvars) = 5
    /\ colvarChain = <<0, 0, 0, 1, 1>>
    /\ colvars[5] = NList(30, 15)
    /\ StartResidue(5) = 1


(* ------------------------------------------------ claims: neighbour list *)
\* C19: with NL_STRIDE = N > 0, a window is left out of the calculation of a
\* step only between two update steps and only if it contributed less than
\* TOL at the update step before; at every update step (every N steps) all
\* windows are evaluated, and the update before is less than N steps back, so
\* a window that has become relevant is evaluated again at the next update
\* at the latest.
C19_StaleSkip ==
    (npc = "calculated" /\ updateFreq > 0) =>
        /\ \A w \in 1..Len(computed) :
              ~computed[w] => (step % updateFreq # 0 /\ ~atUpdate[w])
        /\ step % updateFreq = 0 => \A w \in 1..Len(computed) : computed[w]
        /\ lastUpdate = step - (step % updateFreq)

\* NL_STRIDE=3, step 4: the first window was below TOL at step 3, contributes
\* again and is skipped; the second window is evaluated
C19_Witness ==
    /\ npc = "calculated"
    /\ updateFreq = 3
    /\ step = 4
    /\ lastUpdate = 3
    /\ atUpdate = <<FALSE, TRUE>>
    /\ contribution = <<TRUE, TRUE>>
    /\ computed = <<FALSE, TRUE>>


(* ---------------------------------------------- claims: loop bounds *)
\* C21: in the ALPHADPLUSCISRMSD constructor the unsigned loop bound
\* nres - ATOMS_IN_BB_RES of a chain that passed both checks has not wrapped
\* around: the chain got at most as many windows as it has residues, and the
\* last atom index of its last window is below the chain's offset plus its
\* atom count.
C21_AlphaDPlusCisNoWrap ==
    action = AlphaDPlusCisAction =>
        \A j \in 1..Len(blocks) :
            LET b == blocks[j]
            IN  /\ LimbsSmall(b.count)
                /\ LimbsNat(b.count) <= chains[j] \div ATOMS_IN_BB_RES
                /\ LimbsNat(b.count) > 0 =>
                      b.first + ATOMS_IN_BB_RES * (LimbsNat(b.count) - 1)
                        + b.len - 1 < Offset(j) + chains[j]


\* C22: in ContinuousSSRMSD::init the subtraction nres - T of the loop bound
\* does not wrap around for a chain that reaches the loop: the constructor
\* never enters a loop without end, the bound of every chain that passed the
\* two checks is nres - T as an integer, and the loop of the chain has made
\* at most nres iterations.
C22_InitNoWrap ==
    IsContinuous =>
        /\ pc # "hang"
        /\ \A j \in 1..i :
              LET nres  == chains[j] \div ATOMS_IN_BB_RES
                  bound == InitLoopBound(nres, TemplateLen)
              IN  /\ LimbsSmall(bound)
                  /\ LimbsNat(bound) = nres - TemplateRes
                  /\ Cardinality(WindowsOf(j)) = LimbsNat(bound) + 1
                  /\ Cardinality(WindowsOf(j)) <= nres

\* a chain of exactly the template's 3 residues (bound 0, one iteration) and
\* a chain of 10 residues have passed the loop
C22_Witness ==
    /\ pc = "done"
    /\ action = "ALPHAMINUSTRANSRMSD"
    /\ chains = <<15, 50>>
    /\ InitLoopBound(3, TemplateLen) = ToLimbs(0, SizeTLimbs)
    /\ Cardinality(WindowsOf(1)) = 1
    /\ Cardinality(WindowsOf(2)) = 8


(* ------------------------------------------- claims: order of the checks *)
\* the chains init rejects, and the first of them
InvalidChains == RejectedChains(chains, TemplateLen)
FirstInvalid == CHOOSE j \in InvalidChains : \A k \in InvalidChains : j <= k

\* every window of the chains 1..n is registered and no other
RegisteredUpTo(n) ==
    /\ Len(colvars) = WindowsBefore(n + 1)
    /\ \A j \in 1..n : Cardinality(WindowsOf(j)) = WindowsPerChain(chains[j])
    /\ \A j \in (n + 1)..Len(chains) : WindowsOf(j) = {}

\* what C23 says of a single state
C23_State ==
    IsContinuous =>
        /\ nSetSS <= 1
        /\ InvalidChains # {} =>
              /\ nSetSS = 0
              /\ pc # "done"
              /\ \A j \in FirstInvalid..Len(chains) : WindowsOf(j) = {}
              /\ pc = "error" =>
                    (i = FirstInvalid - 1 /\ RegisteredUpTo(FirstInvalid - 1))
        /\ InvalidChains = {} =>
              /\ pc # "error"
              /\ nSetSS = (IF pc = "done" THEN 1 ELSE 0)
              /\ pc = "done" => RegisteredUpTo(Len(chains))

\* C23: init checks the chains one at a time, in the order of the list.
\* When chain f is the first invalid one, init ends in an error at chain f
\* with the windows of all chains before f registered, no window of chain f
\* or of a later chain is ever registered and setSecondaryStructure is never
\* called.  When all chains are valid, setSecondaryStructure is called
\* exactly once, by a step taken after the last window was registered and
\* that registers none.
C23_ChainsInOrder ==
    /\ []C23_State
    /\ [][(IsContinuous /\ nSetSS' # nSetSS) =>
             /\ nSetSS = 0 /\ nSetSS' = 1
             /\ RegisteredUpTo(Len(chains))
             /\ colvars' = colvars]_vars

\* the second chain is the first invalid one: the two windows of the first
\* chain are registered, nothing else is
C23_Witness ==
    /\ action = "C7BETAMINUSTRANSRMSD"
    /\ chains = <<20, 12>>
    /\ pc = "error"
    /\ i = 1
    /\ colvars = <<NList(0, 15), NList(5, 15)>>
    /\ nSetSS = 0


\* C24: in init the length check takes precedence.  The chain at which init
\* ended in an error raised 'not long enough' exactly when it has fewer atoms
\* than the template, a multiple of 5 or not, and 'not a multiple of 5'
\* exactly when it has at least the template's atoms and a partial residue;
\* one error is raised, never both, and no invalid chain is passed without
\* one.
C24_LengthCheckFirst ==
    IsContinuous =>
        /\ \A j \in 1..i : j \notin InvalidChains
        /\ pc = "error" <=> errmsg # "none"
        /\ pc = "error" =>
              LET n == chains[i + 1]
              IN  /\ errmsg \in {"not_long_enough", "not_multiple"}
                  /\ errmsg = "not_long_enough" <=> n < TemplateLen
                  /\ errmsg = "not_multiple" <=>
                        (n >= TemplateLen /\ n % ATOMS_IN_BB_RES # 0)

\* a chain of 12 atoms, short and with a partial residue, raised the length
\* error
C24_Witness ==
    /\ action = "ALPHADMINUSTRANSRMSD"
    /\ chains = <<12>>
    /\ pc = "error"
    /\ errmsg = "not_long_enough"


(* ------------------------------------------------ claims: the templates *)
\* C25: there are eleven registered motif actions and each supplies a
\* template of exactly 15 points, 3 residues of 5 atoms: neither template
\* assertion of init ever fails for a registered motif, T is 3, the structure
\* handed to setSecondaryStructure has 15 points and so has every window.
C25_FifteenPoints ==
    /\ Cardinality(RegisteredActions) = 11
    /\ action \in RegisteredActions =>
          /\ pc # "assert"
          /\ TemplateLen = 15
          /\ TemplateRes = 3
          /\ \A w \in 1..Len(colvars) : Len(colvars[w]) = 15
          /\ \A j \in 1..Len(blocks) : blocks[j].len = 15
          /\ pc = "done" => (nSetSS = 1 /\ Len(secondary) = 15)

\* C7BETAPLUSCISRMSD has passed the assertions and stored its template
C25_Witness ==
    /\ action = "C7BETAPLUSCISRMSD"
    /\ chains = <<20>>
    /\ pc = "done"
    /\ Len(secondary) = 15
    /\ secondary[15] = C7BetaPlusCisRMSD_getRefStructure[15]
    /\ Len(colvars) = 2


(* ------------------------------------------ claims: readBackboneAtoms *)
\* ATOMSn is on the input line with at least one atom
HasAtoms(n) ==
    n \in DOMAIN kwAtoms /\ kwAtoms[n].present /\ kwAtoms[n].atoms # <<>>

\* the k of the contiguous prefix ATOMS1..ATOMSk
PrefixKeys ==
    CHOOSE k \in 0..MaxKeys :
        /\ \A n \in 1..k : HasAtoms(n)
        /\ ~HasAtoms(k + 1)

\* what C26 says of a single state: the chains appended so far are
\* ATOMS1..ATOMS(i-1) in that order behind the chains handed in, i never
\* passes the first missing number, and the loop ends with exactly the
\* contiguous prefix appended
C26_State ==
    rpc \in {"loop", "done"} =>
        /\ ri <= PrefixKeys + 1
        /\ backatoms = backatoms0 \o [n \in 1..(ri - 1) |-> kwAtoms[n].atoms]
        /\ rpc = "done" =>
              /\ ri = PrefixKeys + 1
              /\ Len(backatoms) = Len(backatoms0) + PrefixKeys

\* C26: readBackboneAtoms reads ATOMS1, ATOMS2, ... in increasing order and
\* stops at the first number with an empty atom list: it appends exactly the
\* contiguous prefix ATOMS1..ATOMSk in that order behind the chains already
\* in the list, reads no chain given after a gap, and the loop ends.
C26_ContiguousPrefix ==
    /\ []C26_State
    /\ <>(rpc = "done")

\* ATOMS1 and ATOMS2 were appended behind the chain handed in; ATOMS4 after
\* the gap at ATOMS3 was not read
C26_Witness ==
    /\ rpc = "done"
    /\ kwAtoms = <<Keyword(<<2, 3>>), Keyword(<<1>>), AbsentKey, Keyword(<<1>>)>>
    /\ backatoms0 = << <<7, 8>> >>
    /\ backatoms = << <<7, 8>>, <<2, 3>>, <<1>> >>
    /\ ri = 3


(* ------------------------------------------------ claims: index safety *)
\* the indices 0 .. n-1 of a std::vector of n entries
IndicesOf(v) == 0..(Len(v) - 1)

\* C27: after a successful construction coefficients, parameters and powers
\* have the same length, the number of inputs; so a task index below
\* parameters.size() (the bound calculateFunction asserts in the
\* repeated-pattern branch) is a valid index of coefficients and of powers,
\* and the loop of the explicit branch, i < coefficients.size(), stays
\* inside parameters, powers and the inputs.
C27_IndexSafe ==
    cpc = "constructed" =>
        /\ Len(coefficients) = Len(parameters)
        /\ Len(parameters) = Len(powers)
        /\ Len(powers) = (IF numberedkeys THEN nargs ELSE nscalar)
        /\ \A ind \in 0..MaxArgs :
              ind < Len(parameters) =>
                  ind \in IndicesOf(coefficients) /\ ind \in IndicesOf(powers)
        /\ \A k \in IndicesOf(coefficients) :
              /\ k \in IndicesOf(parameters)
              /\ k \in IndicesOf(powers)
              /\ k < NumberOfInputs

\* one non-scalar argument of two elements, no numbered keys: the object of
\* the repeated-pattern mode holds two entries per vector for its two tasks
C27_Witness ==
    /\ cpc = "constructed"
    /\ ~numberedkeys
    /\ nargs = 1
    /\ nscalar = 2
    /\ kwCoefficients.given
    /\ ~kwParameters.given
    /\ Len(coefficients) = 2
    /\ Len(parameters) = 2
    /\ Len(powers) = 2


(* -------------------------------------- claims: the two addressing modes *)
\* what Combine::calculateFunction leaves in a cleared myvals for the task
\* at hand when the object takes its other branch: the same vectors, the
\* same input and task index, numberedkeys the other way round
OtherMode ==
    calculateFunction(coefficients, parameters, powers, ~numberedkeys,
                      periodic, args, taskIndex,
                      [k \in 1..nargs |-> DZero(0)])

RepeatedValue == IF numberedkeys THEN OtherMode.value ELSE value
ExplicitValue == IF numberedkeys THEN value ELSE OtherMode.value

NormalisationRuns == normalize' /\ ~normalize

\* the three size checks have been made and none raised its error()
SizeChecksPassed ==
    /\ cpc = "normalize"
    /\ cerr = "none"
    /\ ~SizeMismatch(coefficients, NumberOfInputs)
    /\ ~SizeMismatch(parameters, NumberOfInputs)
    /\ ~SizeMismatch(powers, NumberOfInputs)

\* every coefficient is multiplied by the one double 1.0/n, n their sum
SameFactor ==
    LET factor == DDivInt(1, CoefficientSum(coefficients))
    IN  /\ Len(coefficients') = Len(coefficients)
        /\ \A k \in 1..Len(coefficients) :
              coefficients'[k] = DMulInt(DToInt(coefficients[k]), factor)

\* C29: the normalisation of the Combine constructor runs only after the
\* three size checks have passed, multiplies every coefficient by the same
\* factor 1/(sum of the coefficients) and leaves the parameters, the powers
\* and the number of coefficients as they are; it is applied once, at
\* setup: no later step, and no evaluation of a task, changes a coefficient.
C29_NormalisedOnceAtSetup ==
    [][/\ NormalisationRuns =>
             /\ SizeChecksPassed
             /\ SameFactor
             /\ parameters' = parameters
             /\ powers' = powers
       /\ (normalize \/ cpc = "constructed") =>
             /\ coefficients' = coefficients
             /\ normalize' = normalize
       /\ (cpc = "normalize" /\ ~NormalisationRuns) =>
             coefficients' = coefficients]_vars

\* COMBINE ARG=a,b COEFFICIENTS=1,3 PARAMETERS=1,1 NORMALIZE: the stored
\* coefficients are 0.25 and 0.75 and still are after a task was evaluated
C29_Witness ==
    /\ cpc = "constructed"
    /\ normalize
    /\ kwCoefficients.given /\ kwCoefficients.vals = <<1, 3>>
    /\ coefficients = <<DDivInt(1, 4), DDivInt(3, 4)>>
    /\ parameters = <<1, 1>>
    /\ powers = <<1, 1>>
    /\ epc = "evaluated"

====
